---- MODULE Spec2Model ----
(***************************************************************************)
(* Transport and session layer of the docker-agent MCP server              *)
(* (mcp/docker-agent/src/http_transport.rs, mcp_server.rs).                *)
(*                                                                         *)
(* Spec      the HTTP surface: concurrent POST / GET / DELETE handlers     *)
(*           over the shared session map.  A handler is cut at its .await  *)
(*           points on the sessions lock; between two of them it touches   *)
(*           no shared state, so each segment is one atomic step.          *)
(* SpecGate  the pure function validate_origin, applied to inputs drawn    *)
(*           from OriginHeaders x AllowLists.                              *)
(* SpecRpc   JSON-RPC dispatch on both surfaces: the process serves either *)
(*           the line stream (mcp_server::run) or HTTP POST and DELETE, as *)
(*           main.rs chooses, over every method, id shape, tool and        *)
(*           arguments.                                                    *)
(* SpecSse   the broadcast channel of one session: publishers, and the SSE *)
(*           streams handle_get builds on tx.subscribe().                  *)
(***************************************************************************)
EXTENDS Integers, Sequences, FiniteSets, TLC

\* ------------------------------------------------------------- bounds
\* Number of connections that can be open at the same time.
MaxConns == 2
\* Number of UUIDs drawn by create_session in one run.
MaxUuids == 2
\* The capacity asked of broadcast::channel; stands for the 100 of create_session.
ChannelArg == 2
\* Number of messages sent on the session's channel in one run.
MaxPublish == 4
\* Number of lines the line-stream loop reads in one run.
MaxLines == 3

Conns == 1 .. MaxConns

\* ------------------------------------------------------ header values
\* An HTTP header value: absent, or bytes; HeaderValue::to_str succeeds only
\* when every byte is visible ASCII (OpaqueHdr: some byte is not, written <E9>).
NoHeader == [present |-> FALSE, visible |-> FALSE, raw |-> ""]
Hdr(s) == [present |-> TRUE, visible |-> TRUE, raw |-> s]
OpaqueHdr(s) == [present |-> TRUE, visible |-> FALSE, raw |-> s]

\* Option<&str>
NoneStr == [some |-> FALSE, s |-> ""]
SomeStr(x) == [some |-> TRUE, s |-> x]

\* headers.get(name).and_then(|v| v.to_str().ok())
to_str_ok(h) == IF h.present /\ h.visible THEN SomeStr(h.raw) ELSE NoneStr

\* Option<Vec<String>>
NoAllowList == [some |-> FALSE, list |-> << >>]
AllowList(l) == [some |-> TRUE, list |-> l]

\* str::starts_with
starts_with(s, p) == Len(s) >= Len(p) /\ SubSeq(s, 1, Len(p)) = p

\* validate_origin with the allow-list matched by prefix (a.starts_with(origin))
\* instead of by equality.
validate_origin_prefix(origin_header, allowed) ==
    LET origin == to_str_ok(origin_header) IN
    IF ~origin.some
    THEN TRUE
    ELSE IF allowed.some
         THEN \E i \in 1 .. Len(allowed.list) : starts_with(allowed.list[i], origin.s)
         ELSE \/ starts_with(origin.s, "http://localhost")
              \/ starts_with(origin.s, "http://127.0.0.1")
              \/ starts_with(origin.s, "https://localhost")
              \/ starts_with(origin.s, "https://127.0.0.1")

\* validate_origin with a missing Origin header sent through the allow-list
\* (unwrap_or("") instead of the None arm).
validate_origin_strict(origin_header, allowed) ==
    LET origin == to_str_ok(origin_header) IN
    IF allowed.some
    THEN \E i \in 1 .. Len(allowed.list) : allowed.list[i] = origin.s
    ELSE \/ ~origin.some
         \/ starts_with(origin.s, "http://localhost")
         \/ starts_with(origin.s, "http://127.0.0.1")
         \/ starts_with(origin.s, "https://localhost")
         \/ starts_with(origin.s, "https://127.0.0.1")

\* validate_origin as the comment on AppState.allowed_origins has it: without
\* an allow-list every origin passes.
validate_origin_allow_all(origin_header, allowed) ==
    LET origin == to_str_ok(origin_header) IN
    IF ~origin.some
    THEN TRUE
    ELSE IF allowed.some
         THEN \E i \in 1 .. Len(allowed.list) : allowed.list[i] = origin.s
         ELSE TRUE

\* fn validate_origin(headers, allowed_origins) -> bool
validate_origin(origin_header, allowed) ==
    LET origin == to_str_ok(origin_header) IN
    IF ~origin.some
    THEN TRUE
    ELSE IF allowed.some
         THEN \E i \in 1 .. Len(allowed.list) : allowed.list[i] = origin.s
         ELSE \/ starts_with(origin.s, "http://localhost")
              \/ starts_with(origin.s, "http://127.0.0.1")
              \/ starts_with(origin.s, "https://localhost")
              \/ starts_with(origin.s, "https://127.0.0.1")

\* Origin headers the gate is applied to in SpecGate.
OriginHeaders ==
    { NoHeader,
      Hdr("http://localhost"), Hdr("http://localhost:3000"),
      Hdr("https://localhost"), Hdr("https://localhost:8443"),
      Hdr("http://127.0.0.1"), Hdr("http://127.0.0.1:8080"),
      Hdr("https://127.0.0.1"), Hdr("https://127.0.0.1:1"),
      Hdr("https://evil.example"), Hdr("https://evil.com"),
      Hdr("http://localhost.evil.example"), Hdr("http://127.0.0.1.evil.example"),
      Hdr("https://localhostess.example:443"),
      Hdr("http://localhos"), Hdr("ftp://localhost"), Hdr(""),
      Hdr("https://myapp.com"), Hdr("https://myapp.co"),
      Hdr("https://myapp.com:8443"), Hdr("HTTPS://MYAPP.COM"),
      OpaqueHdr("https://evil.example<E9>") }

\* Allow-list configurations the gate is applied to in SpecGate.
AllowLists ==
    { NoAllowList,
      AllowList(<< >>),
      AllowList(<<"https://myapp.com">>),
      AllowList(<<"https://myapp.com", "http://localhost:3000">>),
      AllowList(<<"https://evil.example", "https://myapp.com:8443">>) }

\* ------------------------------------------------------------ state
VARIABLES
    allowed_origins,  \* AppState.allowed_origins
    sessions,         \* AppState.sessions: session id -> Session
    uuids,            \* how many UUIDs Uuid::new_v4 has drawn
    conn,             \* per connection: the request in flight and its handler's position
    last,             \* the exchange whose response is being written out, or Idle
    issued,           \* history: issued[s] = how often create_session returned s
    removals,         \* history: removals[s] = how often remove_session(s) returned true
    gate_origin,      \* SpecGate: the Origin header validate_origin is applied to
    gate_ret,         \* SpecGate: its result, "pending" before the call
    chan,             \* SpecSse: the broadcast channel behind the session's tx
    streams,          \* SpecSse: per connection, the SSE stream of its GET
    sends,            \* SpecSse: how many tx.send calls were made
    published,        \* SpecSse history: the messages tx.send accepted, in order
    transport,        \* main.rs: the transport the process serves, "http" or "stdio"
    stdio,            \* mcp_server::run: the line being handled and the loop's position
    lines_read,       \* mcp_server::run: lines taken from stdin so far
    lines_written,    \* mcp_server::run: response lines written to stdout so far
    lines_in,         \* history: the kind of each item stdin.lock().lines() has yielded
    guards            \* connections whose handler holds a guard on sessions across an .await

vars == << allowed_origins, sessions, uuids, conn, last, issued, removals,
           gate_origin, gate_ret, chan, streams, sends, published,
           transport, stdio, lines_read, lines_written, lines_in, guards >>

\* Session ids are the strings Uuid::new_v4().to_string() yields: k stands for
\* the k-th UUID drawn.  A v4 UUID carries 122 random bits: a draw never repeats
\* an earlier one, and no client names one before a response has carried it.
SessionIds == 1 .. MaxUuids
\* mcp-session-id header: absent, or a string this server never generated.
NoSid == -1
Stranger == 0

\* Uuid::nil(): the same id on every call.
Uuid_nil(drawn) == 1

\* Uuid::new_v4().to_string(), after `drawn` earlier draws
Uuid_new_v4(drawn) == drawn + 1

\* struct Session { id, created_at, tx }; tx names the broadcast channel
Session(sid) == [id |-> sid, tx |-> sid]

\* ------------------------------------------------- the session channel
\* struct SseMessage { event_id, data }: the k-th message a publisher sends
SseMessage(k) ==
    [event_id |-> "e" \o ToString(k), data |-> IF k % 2 = 1 THEN "hello" ELSE "world"]
NoMsg == [event_id |-> "", data |-> ""]

\* usize::next_power_of_two
RECURSIVE power_of_two_from(_, _)
power_of_two_from(n, p) == IF p >= n THEN p ELSE power_of_two_from(n, 2 * p)
next_power_of_two(n) == power_of_two_from(n, 1)

\* broadcast::channel(capacity), once the _rx it returns is dropped at the end
\* of create_session: a ring of next_power_of_two(capacity) slots, each tagged
\* with the position of the message it holds; tail is the next position
\* written, rx_cnt the number of live receivers, closed is set when the last
\* Sender is dropped.
channel(capacity) ==
    LET cap == next_power_of_two(capacity) IN
    [buffer |-> [i \in 0 .. cap - 1 |-> [pos |-> i - cap, msg |-> NoMsg]],
     tail |-> 0, rx_cnt |-> 0, closed |-> FALSE]
Cap(ch) == Cardinality(DOMAIN ch.buffer)

\* Sender::send: Err when there is no receiver, else the value overwrites the
\* slot at tail; it never waits for a receiver.
send(ch, msg) ==
    IF ch.rx_cnt = 0
    THEN [ch |-> ch, ok |-> FALSE]
    ELSE [ch |-> [ch EXCEPT !.buffer[ch.tail % Cap(ch)] = [pos |-> ch.tail, msg |-> msg],
                            !.tail = @ + 1],
          ok |-> TRUE]

\* A Receiver whose drop does not give its slot back to the channel.
drop_receiver_leak(ch) == ch

\* Drop for Receiver, run when the SSE stream that owns it is dropped
drop_receiver(ch) == [ch EXCEPT !.rx_cnt = @ - 1]

\* Sender::subscribe handing out the oldest retained position (a replaying
\* subscription).
subscribe_replay(ch) ==
    [ch |-> [ch EXCEPT !.rx_cnt = @ + 1],
     next |-> IF ch.tail > Cap(ch) THEN ch.tail - Cap(ch) ELSE 0]

\* Sender::subscribe: a new receiver positioned at tail
subscribe(ch) == [ch |-> [ch EXCEPT !.rx_cnt = @ + 1], next |-> ch.tail]

\* Receiver::recv that trusts the slot without comparing its position.
recv_unchecked(ch, next) ==
    LET slot == ch.buffer[next % Cap(ch)] IN
    IF slot.pos + Cap(ch) = next \/ slot.pos < 0
    THEN [kind |-> "empty", msg |-> NoMsg, pos |-> -1, next |-> next]
    ELSE [kind |-> "ok", msg |-> slot.msg, pos |-> slot.pos, next |-> next + 1]

\* Receiver::recv for a receiver at position next: the message there; nothing
\* yet, or Closed when nothing is left and every Sender is gone; or Lagged
\* when that slot was overwritten (the receiver then moves to the oldest
\* retained position)
recv(ch, next) ==
    LET slot == ch.buffer[next % Cap(ch)] IN
    IF slot.pos = next
    THEN [kind |-> "ok", msg |-> slot.msg, pos |-> slot.pos, next |-> next + 1]
    ELSE IF slot.pos + Cap(ch) = next
         THEN [kind |-> IF ch.closed THEN "closed" ELSE "empty",
               msg |-> NoMsg, pos |-> -1, next |-> next]
         ELSE [kind |-> "lagged", msg |-> NoMsg, pos |-> -1, next |-> ch.tail - Cap(ch)]

\* Event::default().id(msg.event_id).data(msg.data); pos records which send
\* the event comes from
Event(msg, pos) == [id |-> msg.event_id, data |-> msg.data, pos |-> pos]

\* An SSE stream: the receiver's position next, the events written to the
\* client (out), from = the channel's tail when the subscription was taken,
\* lags = how many Lagged results the stream has met.
NoSub == [state |-> "none", next |-> 0, from |-> 0, out |-> << >>, lags |-> 0]

\* The stream's closure ending the stream at an Err item.
filter_map_end(st, r) ==
    IF r.kind = "ok"
    THEN [st EXCEPT !.next = r.next, !.out = Append(@, Event(r.msg, r.pos))]
    ELSE [st EXCEPT !.next = r.next, !.lags = @ + 1, !.state = "ended"]

\* BroadcastStream::new(rx).filter_map(..) given one result r of the receiver:
\* Ok(msg) becomes an event, Err(Lagged) is dropped and the stream goes on;
\* at Err(Closed) BroadcastStream yields None and the stream is over
filter_map(st, r) ==
    IF r.kind = "ok"
    THEN [st EXCEPT !.next = r.next, !.out = Append(@, Event(r.msg, r.pos))]
    ELSE IF r.kind = "closed"
         THEN [st EXCEPT !.state = "ended"]
         ELSE [st EXCEPT !.next = r.next, !.lags = @ + 1]

\* -------------------------------------------------- the session store
\* create_session keeping one session only: the new record takes the place
\* of whatever the map held.
insert_replacing(map, sid, session) == [k \in {sid} |-> session]

\* sessions.write().await.insert(session_id, session)
insert(map, sid, session) ==
    [k \in DOMAIN map \cup {sid} |-> IF k = sid THEN session ELSE map[k]]

\* AppState::get_session: Option<Sender>, 0 for None
NoTx == 0

\* get_session that opens a channel for an id the map does not hold
\* (entry().or_insert_with in place of get).
get_session_or_open(map, sid) ==
    IF sid \in DOMAIN map THEN map[sid].tx ELSE IF sid \in SessionIds THEN sid ELSE NoTx

get_session(map, sid) == IF sid \in DOMAIN map THEN map[sid].tx ELSE NoTx

\* remove_session that reports the removal without dropping the record
\* (HashMap::get in place of HashMap::remove).
remove_session_keep(map, sid) ==
    [map |-> map, removed |-> sid \in DOMAIN map]

\* remove_session whose result is not the map's answer (always true).
remove_session_true(map, sid) ==
    [map |-> [k \in DOMAIN map \ {sid} |-> map[k]], removed |-> TRUE]

\* AppState::remove_session: the map afterwards and the returned bool
remove_session(map, sid) ==
    [map |-> [k \in DOMAIN map \ {sid} |-> map[k]], removed |-> sid \in DOMAIN map]

\* AppState::session_exists
session_exists(map, sid) == sid \in DOMAIN map

\* ---------------------------------------------------------- JSON-RPC
\* Option<Value> of an id: the JSON text of the value, NoId for None.
NoId == "<none>"
\* On the wire the "id" key may be missing (WireAbsent) or hold any JSON value.
WireAbsent == ""
\* serde_json's deserialize_struct with the visitor derive(Deserialize) gives
\* JsonRpcRequest: a JSON object is read by key (visit_map), a JSON array by
\* position as jsonrpc, id, method, params (visit_seq); either way jsonrpc and
\* method must be there as strings, id is an Option and params has a default.
\* Any other JSON value, and a text that is not JSON, is an Err.
deserialize_struct(form, has) ==
    form \in {"object", "array"} /\ {"jsonrpc", "method"} \subseteq has

\* params.get("name") that takes whatever the params hold for a name.
params_name_lenient(params, name, text) == text

\* request.params.get("name").and_then(|v| v.as_str()).unwrap_or(""): get is
\* None on a Value that is no object and on an object without the key, as_str
\* is None on a value that is no string
params_name(params, name, text) ==
    IF params = "object" /\ name = "string" THEN text ELSE ""

\* request.params.get("arguments").cloned().unwrap_or(json!({}))
params_arguments(params, arguments, members) ==
    IF params = "object" /\ arguments # "absent" THEN members ELSE {}

\* A POST body or a line.  form: what the text is ("malformed" when it is not
\* JSON, else the JSON type of the value), has: which of jsonrpc and method it
\* gives as strings, json: does serde_json::from_str::<JsonRpcRequest> accept
\* it.  jsonrpc is the version string it gives, id its id, params the JSON type
\* of its params ("absent" without one); name is the JSON type of params.name
\* and text what it holds, arguments the JSON type of params.arguments and
\* members what it holds as <<name, JSON type>> pairs (for params that are an
\* array or a string: what they hold in place of a name).  tool and args are
\* the name and the arguments handle_tools_call reads from them.
Garbage ==
    [json |-> deserialize_struct("malformed", {}), form |-> "malformed", has |-> {},
     jsonrpc |-> "", id |-> WireAbsent, method |-> "", params |-> "absent",
     name |-> "absent", text |-> "", arguments |-> "absent", members |-> {},
     tool |-> "", args |-> {}]
\* A request object with params of the JSON type given.
CallText(id, method, params, name, text, arguments, members) ==
    [json |-> deserialize_struct("object", {"jsonrpc", "method"}), form |-> "object",
     has |-> {"jsonrpc", "method"},
     jsonrpc |-> "2.0", id |-> id, method |-> method, params |-> params,
     name |-> name, text |-> text, arguments |-> arguments, members |-> members,
     tool |-> params_name(params, name, text),
     args |-> params_arguments(params, arguments, members)]
\* A request without params.
RpcBody(id, method, tool) ==
    CallText(id, method, "absent", "absent", tool, "absent", {})
\* A tools/call with params {"name": tool, "arguments": {args}}; no name
\* member when tool is "".
RpcCall(id, tool, args) ==
    CallText(id, "tools/call", "object", IF tool = "" THEN "absent" ELSE "string", tool,
             "object", args)
\* A JSON text of any form: a scalar, an array, an object short of a member.
JsonText(form, has, id, method) ==
    [Garbage EXCEPT !.json = deserialize_struct(form, has), !.form = form, !.has = has,
                    !.jsonrpc = IF "jsonrpc" \in has THEN "2.0" ELSE "", !.id = id,
                    !.method = IF "method" \in has THEN method ELSE ""]

\* serde's Option<Value>: a missing key and an explicit null both give None
parse_id(wire) == IF wire = WireAbsent \/ wire = "null" THEN NoId ELSE wire

\* from_str that takes any text for a request.
from_str_lenient(body) ==
    [ok |-> TRUE, id |-> parse_id(body.id), method |-> body.method,
     tool |-> params_name(body.params, body.name, body.text),
     args |-> params_arguments(body.params, body.arguments, body.members)]

\* from_str that takes only version "2.0" for a request.
from_str_versioned(body) ==
    [ok |-> deserialize_struct(body.form, body.has) /\ body.jsonrpc = "2.0",
     id |-> parse_id(body.id),
     method |-> body.method,
     tool |-> params_name(body.params, body.name, body.text),
     args |-> params_arguments(body.params, body.arguments, body.members)]

\* serde_json::from_str::<JsonRpcRequest>(&body): jsonrpc is read into a
\* String and never looked at, params into a Value of any shape
from_str(body) ==
    [ok |-> deserialize_struct(body.form, body.has), id |-> parse_id(body.id),
     method |-> body.method,
     tool |-> params_name(body.params, body.name, body.text),
     args |-> params_arguments(body.params, body.arguments, body.members)]

\* struct JsonRpcResponse { jsonrpc, id, result, error }:
\* result is a tag naming the value, error the code; NoResult / NoError for None.
NoResult == "<none>"
NoError == 0
NoRpc == [id |-> NoId, result |-> NoResult, error |-> NoError]

\* JsonRpcResponse::success handed Value::Null as its result.
success_null(id, result) == [id |-> id, result |-> "null", error |-> NoError]

\* JsonRpcResponse::success
success(id, result) == [id |-> id, result |-> result, error |-> NoError]

\* JsonRpcResponse::error
error(id, code) == [id |-> id, result |-> NoResult, error |-> code]

\* serde_json::to_string(&response): the "id" member as written, skipped when
\* the id is None (skip_serializing_if = "Option::is_none")
to_string_id(rpc) == IF rpc.id = NoId THEN WireAbsent ELSE rpc.id

\* serde_json::to_string(&response): each member as written; a member whose
\* Option is None is skipped (WireAbsent, and NoError for the error member)
to_string(rpc) ==
    [id |-> to_string_id(rpc),
     result |-> IF rpc.result = NoResult THEN WireAbsent ELSE rpc.result,
     error |-> rpc.error]

\* The keys of a serialized response, "jsonrpc" aside
MembersOf(wire) ==
    (IF wire.id # WireAbsent THEN {"id"} ELSE {})
    \cup (IF wire.result # WireAbsent THEN {"result"} ELSE {})
    \cup (IF wire.error # NoError THEN {"error"} ELSE {})

\* serde_json::from_str::<JsonRpcResponse>: an Option member is None when the
\* key is missing and when it holds null
from_str_response(wire) ==
    [id |-> parse_id(wire.id),
     result |-> IF wire.result = WireAbsent \/ wire.result = "null" THEN NoResult
                ELSE wire.result,
     error |-> wire.error]

\* handle_initialize: the json!({..}) value of the result tagged "initialize"
initialize_result ==
    [protocolVersion |-> "2024-11-05",
     capabilities |-> [tools |-> << >>],
     serverInfo |-> [name |-> "docker-agent", version |-> "CARGO_PKG_VERSION"]]

\* mcp_server::handle_initialize
handle_initialize(id) == success(id, "initialize")

\* handle_tools_list that answers a request without an id with an error
\* instead of the catalog.
handle_tools_list_identified(id) ==
    IF id = NoId THEN error(id, -32600) ELSE success(id, "tools")

\* mcp_server::handle_tools_list
handle_tools_list(id) == success(id, "tools")

\* ------------------------------------------------------ HTTP exchange
\* A response: status, mcp-session-id header, Content-Type, a plain-text
\* body or a JSON-RPC body.
NoResp == [status |-> 0, session |-> NoSid, ctype |-> "", text |-> "", rpc |-> NoRpc]
Text(status, text) ==
    [status |-> status, session |-> NoSid, ctype |-> "text/plain", text |-> text,
     rpc |-> NoRpc]
Json(status, rpc) ==
    [status |-> status, session |-> NoSid, ctype |-> "application/json", text |-> "",
     rpc |-> rpc]

\* A connection: the request it carries (verb, origin, sid, accept, body), the
\* handler's position pc and local value (the drawn session id, or the cloned
\* Sender), what the handler has called so far (disp: the dispatcher, exec: the
\* Operation Executor, calls: how often, outcome: what the executor returned), the response, and
\* at_start: what the store held for sid when the request arrived.
Idle ==
    [pc |-> "idle", verb |-> "", origin |-> NoHeader, sid |-> NoSid,
     accept |-> NoHeader, body |-> Garbage, at_start |-> "unknown", local |-> 0,
     disp |-> FALSE, exec |-> FALSE, calls |-> 0, outcome |-> "none", resp |-> NoResp]

\* The exchange once the Operation Executor has returned Ok (TRUE) or Err.
returned(c, ok) == [c EXCEPT !.outcome = IF ok THEN "ok" ELSE "err"]

\* handle_tools_call calling the Operation Executor once more after an Err.
after_executor_retry(c, ok, resp) ==
    IF ok \/ c.calls >= 2
    THEN [returned(c, ok) EXCEPT !.pc = "done", !.resp = resp]
    ELSE [c EXCEPT !.calls = @ + 1]

\* handle_tools_call from the executor's return to its own: the closing match
\* builds the response from the one Result, whichever it is
after_executor(c, ok, resp) == [returned(c, ok) EXCEPT !.pc = "done", !.resp = resp]

StoreStatus(sid) ==
    IF sid \in DOMAIN sessions THEN "live"
    ELSE IF sid \in SessionIds /\ removals[sid] > 0 THEN "removed"
    ELSE "unknown"

Request(verb, origin, sid, accept, body) ==
    [Idle EXCEPT !.pc = "recv", !.verb = verb, !.origin = origin, !.sid = sid,
                 !.accept = accept, !.body = body, !.at_start = StoreStatus(sid)]

\* the handler returns `resp`
respond(c, resp) == [c EXCEPT !.pc = "done", !.resp = resp]

\* fn get_session_id(headers) -> Option<String>
get_session_id(c) == c.sid

\* str::contains, for the Accept header
contains(s, sub) ==
    \E i \in 1 .. (Len(s) - Len(sub) + 1) : SubSeq(s, i, i + Len(sub) - 1) = sub

\* ------------------------------------------------------- the dispatcher
RegisteredTools == {"docker_run", "docker_logs", "docker_exec", "docker_stop", "docker_list"}

\* tools.rs, Docker*Args: the fields serde requires (no Option, no default) and
\* the ones it accepts missing or null (Option)
RequiredFields(tool) ==
    CASE tool = "docker_run" ->
            {<<"image", "string">>, <<"env_vars", "array">>, <<"volume_mounts", "array">>}
      [] tool = "docker_logs" -> {<<"container_id", "string">>}
      [] tool = "docker_exec" -> {<<"container_id", "string">>, <<"command", "string">>}
      [] tool = "docker_stop" -> {<<"container_id", "string">>}
      [] OTHER -> {}
OptionalFields(tool) ==
    CASE tool = "docker_run" -> {<<"command", "array">>, <<"name", "string">>}
      [] tool = "docker_logs" ->
            {<<"since", "string">>, <<"tail_lines", "integer">>,
             <<"stdout", "boolean">>, <<"stderr", "boolean">>}
      [] OTHER -> {}

\* serde_json::from_value::<Docker*Args>(arguments).is_ok()
from_value(tool, arguments) ==
    /\ \A f \in RequiredFields(tool) : f \in arguments
    /\ \A f \in OptionalFields(tool) :
          \A a \in arguments : a[1] = f[1] => (a = f \/ a[2] = "null")

\* mcp_server::handle_tools_list, inputSchema: "required" and "properties"
SchemaRequired(tool) ==
    CASE tool = "docker_run" -> {"image"}
      [] tool = "docker_logs" -> {"container_id"}
      [] tool = "docker_exec" -> {"container_id", "command"}
      [] tool = "docker_stop" -> {"container_id"}
      [] OTHER -> {}
SchemaProperties(tool) ==
    CASE tool = "docker_run" ->
            {<<"image", "string">>, <<"command", "array">>, <<"env_vars", "array">>,
             <<"volume_mounts", "array">>, <<"name", "string">>}
      [] tool = "docker_logs" ->
            {<<"container_id", "string">>, <<"since", "string">>,
             <<"tail_lines", "integer">>, <<"stdout", "boolean">>, <<"stderr", "boolean">>}
      [] tool = "docker_exec" -> {<<"container_id", "string">>, <<"command", "string">>}
      [] tool = "docker_stop" -> {<<"container_id", "string">>}
      [] OTHER -> {}

\* struct McpTool as handle_tools_list fills it: name, description, and the
\* inputSchema object (docker_list's has no "required" member: {})
McpTool(name, description) ==
    [name |-> name, description |-> description,
     inputSchema |-> [type |-> "object", properties |-> SchemaProperties(name),
                      required |-> SchemaRequired(name)]]

\* handle_tools_list: let tools = vec![..], the value under "tools" of the
\* result tagged "tools"
tools ==
    << McpTool("docker_run", "Start a long-running Docker container"),
       McpTool("docker_logs",
               "Fetch logs from a running container (supports incremental fetching)"),
       McpTool("docker_exec", "Execute a one-off command in a running container"),
       McpTool("docker_stop", "Stop and remove a container"),
       McpTool("docker_list", "List all tracked containers") >>

\* DockerManager: start_container, get_logs, exec_command and stop_container
\* return a Result, list_containers a Vec (TRUE: Ok)
ExecutorResults(tool) == IF tool = "docker_list" THEN {TRUE} ELSE {TRUE, FALSE}

\* The closing match of handle_tools_call with Err turned into a JSON-RPC error.
tool_result_error(id, ok) ==
    IF ok THEN success(id, "content") ELSE error(id, -32603)

\* The closing match of handle_tools_call (both files): Ok(content) and Err(e)
\* both become a success envelope, Err with "isError": true
tool_result(id, ok) ==
    success(id, IF ok THEN "content" ELSE "content+isError")

\* handle_tools_call with the HTTP status following the JSON-RPC outcome:
\* invalid params are answered 400.
handle_tools_call_bad_request(c, request) ==
    CASE request.tool \in {"docker_run", "docker_logs", "docker_exec", "docker_stop"} ->
            IF ~from_value(request.tool, request.args)
            THEN respond(c, Json(400, error(request.id, -32602)))
            ELSE [c EXCEPT !.pc = "exec", !.exec = TRUE, !.calls = @ + 1]
      [] request.tool = "docker_list" -> [c EXCEPT !.pc = "exec", !.exec = TRUE, !.calls = @ + 1]
      [] OTHER -> respond(c, Json(200, tool_result(request.id, FALSE)))

\* http_transport::handle_tools_call up to its first .await on the Operation
\* Executor, or to its return when it never calls it
handle_tools_call(c, request) ==
    CASE request.tool \in {"docker_run", "docker_logs", "docker_exec", "docker_stop"} ->
            IF ~from_value(request.tool, request.args)
            THEN respond(c, Json(200, error(request.id, -32602)))
            ELSE [c EXCEPT !.pc = "exec", !.exec = TRUE, !.calls = @ + 1]
      [] request.tool = "docker_list" -> [c EXCEPT !.pc = "exec", !.exec = TRUE, !.calls = @ + 1]
      [] OTHER -> respond(c, Json(200, tool_result(request.id, FALSE)))

\* http_transport::handle_json_rpc_request, wrapped in handle_post's 200 answer
handle_json_rpc_request(c, request) ==
    LET d == [c EXCEPT !.disp = TRUE] IN
    CASE request.method = "initialize" ->
            respond(d, Json(200, handle_initialize(request.id)))
      [] request.method = "tools/list" ->
            respond(d, Json(200, handle_tools_list(request.id)))
      [] request.method = "tools/call" -> handle_tools_call(d, request)
      [] request.method = "ping" -> respond(d, Json(200, success(request.id, "{}")))
      [] OTHER -> respond(d, Json(200, error(request.id, -32601)))

\* ---------------------------------------------------------- handle_post
\* handle_post's body with a session created for every parsed request.
post_accepted_any(c) ==
    LET request == from_str(c.body) IN
    IF ~request.ok
    THEN respond(c, Json(400, error(NoId, -32700)))
    ELSE [c EXCEPT !.pc = "create", !.local = Uuid_new_v4(uuids)]

\* handle_post's body with the session header validated: a request that names
\* a session the store does not hold is turned away.
post_accepted_validating(c) ==
    LET request == from_str(c.body) IN
    IF ~request.ok
    THEN respond(c, Json(400, error(NoId, -32700)))
    ELSE IF request.method = "initialize"
         THEN [c EXCEPT !.pc = "create", !.local = Uuid_new_v4(uuids)]
         ELSE IF get_session_id(c) # NoSid
              THEN IF session_exists(sessions, get_session_id(c))
                   THEN [c EXCEPT !.pc = "exists"]
                   ELSE respond(c, Text(404, "Session not found"))
              ELSE handle_json_rpc_request(c, request)

\* handle_post after the origin check, up to its first .await: the write lock
\* in create_session ("create"), the read lock in session_exists ("exists"),
\* the Operation Executor ("exec"), or its return
post_accepted(c) ==
    LET request == from_str(c.body) IN
    IF ~request.ok
    THEN respond(c, Json(400, error(NoId, -32700)))
    ELSE IF request.method = "initialize"
         THEN [c EXCEPT !.pc = "create", !.local = Uuid_new_v4(uuids)]
         ELSE IF get_session_id(c) # NoSid
              THEN [c EXCEPT !.pc = "exists"]
              ELSE handle_json_rpc_request(c, request)

\* handle_post without the origin check.
handle_post_open(c) == post_accepted(c)

\* async fn handle_post
handle_post(c) ==
    IF ~validate_origin(c.origin, allowed_origins)
    THEN respond(c, Text(403, "Invalid origin"))
    ELSE post_accepted(c)

\* ----------------------------------------------------------- handle_get
\* handle_get that checks the session header before the Accept header.
get_accepted_sid_first(c) ==
    LET a == to_str_ok(c.accept)
        accept == IF a.some THEN a.s ELSE ""
    IN  IF get_session_id(c) = NoSid
        THEN respond(c, Text(400, "Missing Mcp-Session-Id header"))
        ELSE IF ~contains(accept, "text/event-stream")
             THEN respond(c, Text(406, "Must accept text/event-stream"))
             ELSE [c EXCEPT !.pc = "lookup"]

\* handle_get after the origin check, up to the read lock in get_session
get_accepted(c) ==
    LET a == to_str_ok(c.accept)
        accept == IF a.some THEN a.s ELSE ""
    IN  IF ~contains(accept, "text/event-stream")
        THEN respond(c, Text(406, "Must accept text/event-stream"))
        ELSE IF get_session_id(c) = NoSid
             THEN respond(c, Text(400, "Missing Mcp-Session-Id header"))
             ELSE [c EXCEPT !.pc = "lookup"]

\* async fn handle_get
handle_get(c) ==
    IF ~validate_origin(c.origin, allowed_origins)
    THEN respond(c, Text(403, "Invalid origin"))
    ELSE get_accepted(c)

\* -------------------------------------------------------- handle_delete
\* handle_delete after the origin check, up to the write lock in remove_session
delete_accepted(c) ==
    IF get_session_id(c) = NoSid
    THEN respond(c, Text(400, "Missing Mcp-Session-Id header"))
    ELSE [c EXCEPT !.pc = "remove"]

\* async fn handle_delete
handle_delete(c) ==
    IF ~validate_origin(c.origin, allowed_origins)
    THEN respond(c, Text(403, "Invalid origin"))
    ELSE delete_accepted(c)

\* handle_delete's answer from remove_session's result
delete_response(removed) ==
    IF removed THEN Text(200, "Session terminated") ELSE Text(404, "Session not found")

\* ------------------------------------------------------------- inputs
HttpOrigins == {NoHeader, Hdr("https://evil.example")}
Accepts == {NoHeader, Hdr("text/event-stream")}
\* The POSTs sent: a body and an mcp-session-id header.
PostRequests ==
    { [body |-> Garbage, sid |-> NoSid],
      [body |-> RpcBody("7", "initialize", ""), sid |-> NoSid],
      [body |-> RpcBody("null", "initialize", ""), sid |-> Stranger],
      [body |-> RpcBody("7", "ping", ""), sid |-> Stranger],
      [body |-> RpcCall("7", "docker_list", {}), sid |-> Stranger] }
\* The session ids a client can send: none, a string of its own, or an id some
\* response has carried.
SidChoices == {NoSid, Stranger} \cup {s \in SessionIds : issued[s] > 0}

\* POSTs that name a session some response has carried (live, or removed
\* since): an initialize and a ping.
PostsWithSession ==
    {[body |-> RpcBody("7", m, ""), sid |-> s] :
        m \in {"initialize", "ping"}, s \in {x \in SessionIds : issued[x] > 0}}

gate_vars == << gate_origin, gate_ret >>
sse_vars == << chan, streams, sends, published >>
line_vars == << transport, stdio, lines_read, lines_written, lines_in >>

\* session_exists keeping its read guard until handle_post returns (the guard
\* bound in handle_post instead of inside the method).
guards_kept_by_exists(pc, p) == IF pc = "exists" THEN {p} ELSE {}

\* The guards on AppState.sessions a handler still holds when the segment
\* that began at pc reaches the next .await: none, every AppState method
\* takes the lock, uses the map and drops the guard before it returns
guards_kept(pc, p) == {}

\* sessions.write().await returns: no other handler holds a guard
write_lock_free(p) == guards \ {p} = {}

\* sessions.read().await returns: no other handler holds a write guard (a
\* guard kept across an .await can only be a read guard)
read_lock_free(p) == TRUE

\* The handler on connection p has moved to c.  A response goes out with the
\* exchange that produced it (last) and leaves the connection free; an SSE
\* response keeps it open.  A step is taken once the previous response is out.
Settle(p, c) ==
    /\ transport = "http"
    /\ last = Idle
    /\ conn' = [conn EXCEPT ![p] = IF c.pc = "done" THEN Idle ELSE c]
    /\ last' = IF c.pc \in {"done", "stream"} THEN c ELSE last
    /\ guards' = IF c.pc \in {"done", "stream"} THEN guards \ {p}
                 ELSE guards \cup guards_kept(conn[p].pc, p)

\* ------------------------------------------------------------ actions
\* A POST, one of `requests` with an Origin of `origins`, arrives on connection
\* p and its handler runs to its first .await.
PostOf(p, origins, requests) ==
    /\ conn[p].pc = "idle"
    /\ \E o \in origins, r \in requests :
          LET c == handle_post(Request("POST", o, r.sid, NoHeader, r.body)) IN
          /\ c.pc = "create" => uuids < MaxUuids
          /\ Settle(p, c)
          /\ uuids' = IF c.pc = "create" THEN uuids + 1 ELSE uuids
    /\ UNCHANGED << allowed_origins, sessions, issued, removals, gate_vars, sse_vars,
                    line_vars >>

Post(p) == PostOf(p, HttpOrigins, PostRequests \cup PostsWithSession)

\* create_session takes the write lock, inserts and returns; handle_post answers.
PostCreate(p) ==
    /\ conn[p].pc = "create"
    /\ write_lock_free(p)
    /\ LET c == conn[p]
           session_id == c.local
           request == from_str(c.body)
           response == handle_initialize(request.id)
       IN  /\ sessions' = insert(sessions, session_id, Session(session_id))
           /\ issued' = [issued EXCEPT ![session_id] = @ + 1]
           /\ Settle(p, respond(c, [Json(200, response) EXCEPT !.session = session_id]))
    /\ UNCHANGED << allowed_origins, uuids, removals, gate_vars, sse_vars, line_vars >>

\* session_exists takes the read lock (its answer is only logged), then the
\* request is dispatched.
PostExists(p) ==
    /\ conn[p].pc = "exists"
    /\ read_lock_free(p)
    /\ session_exists(sessions, conn[p].sid) \in BOOLEAN
    /\ Settle(p, handle_json_rpc_request(conn[p], from_str(conn[p].body)))
    /\ UNCHANGED << allowed_origins, sessions, uuids, issued, removals, gate_vars, sse_vars, line_vars >>

\* The Operation Executor returns to handle_tools_call, with Ok or Err.
PostExec(p) ==
    /\ conn[p].pc = "exec"
    /\ LET request == from_str(conn[p].body) IN
       \E ok \in ExecutorResults(request.tool) :
           Settle(p, after_executor(conn[p], ok, Json(200, tool_result(request.id, ok))))
    /\ UNCHANGED << allowed_origins, sessions, uuids, issued, removals, gate_vars, sse_vars, line_vars >>

\* A GET arrives on connection p.
Get(p) ==
    /\ conn[p].pc = "idle"
    /\ \E o \in HttpOrigins, a \in Accepts, s \in SidChoices :
          Settle(p, handle_get(Request("GET", o, s, a, Garbage)))
    /\ UNCHANGED << allowed_origins, sessions, uuids, issued, removals, gate_vars, sse_vars, line_vars >>

\* get_session takes the read lock and clones the Sender, or the GET ends in 404.
GetLookup(p) ==
    /\ conn[p].pc = "lookup"
    /\ read_lock_free(p)
    /\ LET tx == get_session(sessions, conn[p].sid) IN
       Settle(p, IF tx = NoTx
                 THEN respond(conn[p], Text(404, "Session not found"))
                 ELSE [conn[p] EXCEPT !.pc = "subscribe", !.local = tx])
    /\ UNCHANGED << allowed_origins, sessions, uuids, issued, removals, gate_vars, sse_vars, line_vars >>

\* tx.subscribe(); the SSE response starts.
GetSubscribe(p) ==
    /\ conn[p].pc = "subscribe"
    /\ Settle(p, [conn[p] EXCEPT !.pc = "stream",
                                 !.resp = [NoResp EXCEPT !.status = 200,
                                                         !.ctype = "text/event-stream"]])
    /\ UNCHANGED << allowed_origins, sessions, uuids, issued, removals, gate_vars, sse_vars, line_vars >>

\* The client of an SSE stream disconnects.
Disconnect(p) ==
    /\ last = Idle
    /\ conn[p].pc = "stream"
    /\ conn' = [conn EXCEPT ![p] = Idle]
    /\ UNCHANGED << allowed_origins, sessions, uuids, issued, removals, last, guards,
                    gate_vars, sse_vars, line_vars >>

\* A DELETE arrives on connection p.
Delete(p) ==
    /\ conn[p].pc = "idle"
    /\ \E o \in HttpOrigins, s \in SidChoices :
          Settle(p, handle_delete(Request("DELETE", o, s, NoHeader, Garbage)))
    /\ UNCHANGED << allowed_origins, sessions, uuids, issued, removals, gate_vars, sse_vars, line_vars >>

\* remove_session takes the write lock and removes; handle_delete answers.
DeleteRemove(p) ==
    /\ conn[p].pc = "remove"
    /\ write_lock_free(p)
    /\ LET r == remove_session(sessions, conn[p].sid) IN
       /\ sessions' = r.map
       /\ removals' = IF r.removed THEN [removals EXCEPT ![conn[p].sid] = @ + 1]
                      ELSE removals
       /\ Settle(p, respond(conn[p], delete_response(r.removed)))
    /\ UNCHANGED << allowed_origins, uuids, issued, gate_vars, sse_vars, line_vars >>

\* The response has been written to the client.
Written ==
    /\ last # Idle
    /\ last' = Idle
    /\ UNCHANGED << allowed_origins, sessions, uuids, conn, issued, removals, guards,
                    gate_vars, sse_vars, line_vars >>

\* AppState::new, before any request
Init ==
    /\ allowed_origins = NoAllowList
    /\ sessions = << >>
    /\ uuids = 0
    /\ conn = [p \in Conns |-> Idle]
    /\ last = Idle
    /\ issued = [s \in SessionIds |-> 0]
    /\ removals = [s \in {Stranger} \cup SessionIds |-> 0]
    /\ gate_origin = NoHeader
    /\ gate_ret = "pending"
    /\ chan = channel(ChannelArg)
    /\ streams = [p \in Conns |-> NoSub]
    /\ sends = 0
    /\ published = << >>
    /\ transport = "http"
    /\ stdio = Idle
    /\ lines_read = 0
    /\ lines_written = 0
    /\ lines_in = << >>
    /\ guards = {}

Next ==
    \/ \E p \in Conns :
          \/ Post(p) \/ PostCreate(p) \/ PostExists(p) \/ PostExec(p)
          \/ Get(p) \/ GetLookup(p) \/ GetSubscribe(p) \/ Disconnect(p)
          \/ Delete(p) \/ DeleteRemove(p)
    \/ Written

Spec == Init /\ [][Next]_vars

\* ------------------------------------------------------------ SpecGate
\* validate_origin applied once to an Origin header and an allow-list.
GateCall ==
    /\ gate_ret = "pending"
    /\ gate_ret' = IF validate_origin(gate_origin, allowed_origins) THEN "allow" ELSE "reject"
    /\ UNCHANGED << allowed_origins, sessions, uuids, conn, last, issued, removals,
                    guards, gate_origin, sse_vars, line_vars >>

InitGate ==
    /\ allowed_origins \in AllowLists
    /\ gate_origin \in OriginHeaders
    /\ gate_ret = "pending"
    /\ sessions = << >>
    /\ uuids = 0
    /\ conn = [p \in Conns |-> Idle]
    /\ last = Idle
    /\ issued = [s \in SessionIds |-> 0]
    /\ removals = [s \in {Stranger} \cup SessionIds |-> 0]
    /\ chan = channel(ChannelArg)
    /\ streams = [p \in Conns |-> NoSub]
    /\ sends = 0
    /\ published = << >>
    /\ transport = "http"
    /\ stdio = Idle
    /\ lines_read = 0
    /\ lines_written = 0
    /\ lines_in = << >>
    /\ guards = {}

NextGate == GateCall

SpecGate == InitGate /\ [][NextGate]_vars

\* ------------------------------------------------------- SpecSse
http_vars == << allowed_origins, sessions, uuids, conn, last, issued, removals, guards >>

\* The session whose channel SpecSse follows.
SseSession == Uuid_new_v4(0)

\* handle_get, past get_session, subscribes and returns the SSE response.
Subscribe(p) ==
    /\ streams[p].state = "none"
    /\ get_session(sessions, SseSession) # NoTx
    /\ LET r == subscribe(chan) IN
       /\ chan' = r.ch
       /\ streams' = [streams EXCEPT ![p] = [NoSub EXCEPT !.state = "open", !.next = r.next,
                                                  !.from = chan.tail]]
    /\ UNCHANGED << http_vars, gate_vars, line_vars, sends, published >>

\* A holder of the session's Sender (get_session) sends the next message.
Publish ==
    /\ sends < MaxPublish
    /\ get_session(sessions, SseSession) # NoTx
    /\ LET msg == SseMessage(sends + 1)
           r == send(chan, msg)
       IN  /\ chan' = r.ch
           /\ published' = IF r.ok THEN Append(published, msg) ELSE published
    /\ sends' = sends + 1
    /\ UNCHANGED << http_vars, gate_vars, line_vars, streams >>

\* The SSE response of connection p polls its stream and writes what it yields.
Forward(p) ==
    /\ streams[p].state = "open"
    /\ LET r == recv(chan, streams[p].next) IN
       /\ r.kind # "empty"
       /\ streams' = [streams EXCEPT ![p] = filter_map(streams[p], r)]
    /\ UNCHANGED << http_vars, gate_vars, line_vars, chan, sends, published >>

\* The client of the stream disconnects, or takes note that the response is
\* over: the stream and its receiver are dropped.
StreamDisconnect(p) ==
    /\ streams[p].state # "none"
    /\ chan' = drop_receiver(chan)
    /\ streams' = [streams EXCEPT ![p] = NoSub]
    /\ UNCHANGED << http_vars, gate_vars, line_vars, sends, published >>

\* handle_delete for the session: remove_session drops the Session and with
\* it the one Sender that outlives a request, which closes the channel.
SessionRemoved ==
    /\ session_exists(sessions, SseSession)
    /\ LET r == remove_session(sessions, SseSession) IN
       /\ r.removed
       /\ sessions' = r.map
       /\ removals' = [removals EXCEPT ![SseSession] = @ + 1]
    /\ chan' = [chan EXCEPT !.closed = TRUE]
    /\ UNCHANGED << allowed_origins, uuids, conn, last, issued, guards, gate_vars,
                    line_vars, streams, sends, published >>

\* One session in the store (an initialize was answered), nobody subscribed
InitSse ==
    /\ allowed_origins = NoAllowList
    /\ sessions = insert(<< >>, SseSession, Session(SseSession))
    /\ uuids = 1
    /\ conn = [p \in Conns |-> Idle]
    /\ last = Idle
    /\ issued = [s \in SessionIds |-> IF s = SseSession THEN 1 ELSE 0]
    /\ removals = [s \in {Stranger} \cup SessionIds |-> 0]
    /\ gate_origin = NoHeader
    /\ gate_ret = "pending"
    /\ chan = channel(ChannelArg)
    /\ streams = [p \in Conns |-> NoSub]
    /\ sends = 0
    /\ published = << >>
    /\ transport = "http"
    /\ stdio = Idle
    /\ lines_read = 0
    /\ lines_written = 0
    /\ lines_in = << >>
    /\ guards = {}

NextSse ==
    \/ \E p \in Conns : Subscribe(p) \/ Forward(p) \/ StreamDisconnect(p)
    \/ Publish
    \/ SessionRemoved

SpecSse == InitSse /\ [][NextSse]_vars

\* ------------------------------------------------------- SpecRpc
\* A response line that names a session, as an HTTP initialize response does.
Line_with_session(rpc) == [NoResp EXCEPT !.rpc = rpc, !.session = Uuid_new_v4(uuids)]

\* A response line on stdout: serde_json::to_string(&response), no HTTP envelope
Line(rpc) == [NoResp EXCEPT !.rpc = rpc]

\* mcp_server::handle_tools_call with its handle_docker_* helpers, up to the
\* first .await on the Operation Executor or to its return: a from_value
\* failure is an Err(String) like any other
mcp_server_handle_tools_call(c, request) ==
    CASE request.tool \in {"docker_run", "docker_logs", "docker_exec", "docker_stop"} ->
            IF ~from_value(request.tool, request.args)
            THEN respond(c, Line(tool_result(request.id, FALSE)))
            ELSE [c EXCEPT !.pc = "exec", !.exec = TRUE, !.calls = @ + 1]
      [] request.tool = "docker_list" -> [c EXCEPT !.pc = "exec", !.exec = TRUE, !.calls = @ + 1]
      [] OTHER -> respond(c, Line(tool_result(request.id, FALSE)))

\* mcp_server::handle_request
handle_request(c, request) ==
    LET d == [c EXCEPT !.disp = TRUE] IN
    CASE request.method = "initialize" -> respond(d, Line(handle_initialize(request.id)))
      [] request.method = "tools/list" -> respond(d, Line(handle_tools_list(request.id)))
      [] request.method = "tools/call" -> mcp_server_handle_tools_call(d, request)
      [] request.method = "ping" -> respond(d, Line(success(request.id, "{}")))
      [] OTHER -> respond(d, Line(error(request.id, -32601)))

\* The loop body with a parse failure propagated by `?`: run returns Err.
run_line_fatal(c) ==
    LET request == from_str(c.body) IN
    IF ~request.ok
    THEN [c EXCEPT !.pc = "err"]
    ELSE handle_request(c, request)

\* The body of run's loop for a non-empty line, up to the first .await
run_line(c) ==
    LET request == from_str(c.body) IN
    IF ~request.ok
    THEN respond(c, Line(error(NoId, -32700)))
    ELSE handle_request(c, request)

\* JSON values of an "id" member: a number, a string, null, or no member.
Ids == {"7", "\"abc\"", "null", WireAbsent}
\* params.arguments of a tools/call
NoArgs == {}
ImageOnly == {<<"image", "string">>}
RunArgs == {<<"image", "string">>, <<"env_vars", "array">>, <<"volume_mounts", "array">>}
RunArgsImageNumber ==
    {<<"image", "number">>, <<"env_vars", "array">>, <<"volume_mounts", "array">>}
ContainerOnly == {<<"container_id", "string">>}
ContainerNumber == {<<"container_id", "number">>}
ExecArgs == {<<"container_id", "string">>, <<"command", "string">>}
ArgSamples ==
    {NoArgs, ImageOnly, RunArgs, RunArgsImageNumber, ContainerOnly, ContainerNumber, ExecArgs}
\* params.name of a tools/call: the five tools, a name that is none of them,
\* and no name
ToolNames == RegisteredTools \cup {"docker_rm", ""}

\* A tools/list request that carries params (a name and arguments).
ListWithParams == [RpcCall("7", "docker_run", RunArgs) EXCEPT !.method = "tools/list"]

\* initialize requests: any id, any version string, params of any JSON type.
VersionStrings == {"2.0", "1.0", ""}
ParamsTypes == {"absent", "null", "object", "array", "string"}
InitializeBodies ==
    {[RpcBody(i, "initialize", "") EXCEPT !.jsonrpc = v, !.params = ps] :
        i \in Ids, v \in VersionStrings, ps \in ParamsTypes}

\* JSON texts that are not a request object: a scalar, an array (empty or a
\* batch of objects; or the members of a request by position), an object
\* without jsonrpc or without method, with and without an id.
JsonTexts ==
    {JsonText("scalar", {}, WireAbsent, ""), JsonText("array", {}, WireAbsent, "")}
    \cup {JsonText("array", {"jsonrpc", "method"}, i, "ping") : i \in {"7", "null"}}
    \cup {JsonText("object", h, i, "ping") : h \in {{"jsonrpc"}, {"method"}, {}},
                                             i \in {"7", WireAbsent}}

\* tools/call requests whose params are not {"name": string, "arguments":
\* object}: no params, params null, an array or a string holding a tool's name,
\* an object whose name is missing, a number or null, and an object without
\* arguments.
CallTexts ==
    {CallText("7", "tools/call", ps, "absent", "", "absent", {}) : ps \in {"absent", "null"}}
    \cup {CallText("7", "tools/call", ps, "absent", "docker_list", "absent", {}) :
             ps \in {"array", "string"}}
    \cup {CallText(i, "tools/call", "object", n[1], n[2], a[1], a[2]) :
             i \in {"7", WireAbsent},
             n \in {<<"absent", "">>, <<"number", "42">>, <<"null", "null">>},
             a \in {<<"absent", {}>>, <<"object", ContainerOnly>>}}
    \cup {CallText("7", "tools/call", "object", "string", t, "absent", {}) :
             t \in RegisteredTools}

\* The request texts sent on either surface.
RpcBodies ==
    {Garbage}
    \cup {RpcBody(i, m, "") : i \in Ids,
                              m \in {"initialize", "tools/list", "ping", "resources/list"}}
    \cup {RpcCall(i, "docker_stop", ContainerOnly) : i \in Ids}
    \cup {RpcCall("7", t, a) : t \in ToolNames, a \in ArgSamples}
    \cup {ListWithParams}
    \cup InitializeBodies
    \cup JsonTexts
    \cup CallTexts

\* The connection the POSTs of SpecRpc arrive on.
RpcConn == 1

\* A POST of SpecRpc: any of RpcBodies, with any session header, no Origin.
RpcPost ==
    PostOf(RpcConn, {NoHeader}, {[body |-> b, sid |-> sd] : b \in RpcBodies, sd \in SidChoices})

\* What stdin.lock().lines() yields next: end of input, an I/O error, or a line.
LineInputs ==
    {[kind |-> "eof", body |-> Garbage], [kind |-> "error", body |-> Garbage],
     [kind |-> "empty", body |-> Garbage], [kind |-> "spaces", body |-> Garbage]}
    \cup {[kind |-> "text", body |-> b] : b \in RpcBodies}

\* The loop on stdin has moved to c with the line handled: a response is
\* written and flushed, and the loop is back at its head; or it waits for the
\* Operation Executor.
LineSettle(c) ==
    /\ stdio' = IF c.pc = "done" THEN Idle ELSE c
    /\ last' = IF c.pc = "done" THEN c ELSE last
    /\ lines_written' = IF c.pc = "done" THEN lines_written + 1 ELSE lines_written

\* run is at the head of its for loop: the previous line's handle_request
\* has returned and its response is written and flushed
loop_at_head == stdio.pc = "idle" /\ last = Idle

\* run takes the next item of stdin.lock().lines(): the loop ends (Ok at end
\* of input, Err at a read error), skips an empty line, or handles the line up
\* to its first .await.
LineRead ==
    /\ transport = "stdio"
    /\ loop_at_head
    /\ lines_read < MaxLines
    /\ lines_read' = lines_read + 1
    /\ \E input \in LineInputs :
          /\ lines_in' = Append(lines_in, input.kind)
          /\ CASE input.kind = "eof" ->
                      /\ stdio' = [Idle EXCEPT !.pc = "ok"]
                      /\ UNCHANGED << last, lines_written >>
                [] input.kind = "error" ->
                      /\ stdio' = [Idle EXCEPT !.pc = "err"]
                      /\ UNCHANGED << last, lines_written >>
                [] input.kind = "empty" -> UNCHANGED << stdio, last, lines_written >>
                [] OTHER ->
                      LineSettle(run_line(Request("LINE", NoHeader, NoSid, NoHeader,
                                                  input.body)))
    /\ UNCHANGED << allowed_origins, sessions, uuids, conn, issued, removals, transport,
                    guards, gate_vars, sse_vars >>

\* The Operation Executor returns to mcp_server::handle_tools_call.
LineExec ==
    /\ stdio.pc = "exec"
    /\ LET request == from_str(stdio.body) IN
       \E ok \in ExecutorResults(request.tool) :
           LineSettle(after_executor(stdio, ok, Line(tool_result(request.id, ok))))
    /\ UNCHANGED << allowed_origins, sessions, uuids, conn, issued, removals, transport,
                    guards, lines_read, lines_in, gate_vars, sse_vars >>

\* main: the transport is chosen, and AppState::new for HTTP
InitRpc ==
    /\ transport \in {"http", "stdio"}
    /\ allowed_origins = NoAllowList
    /\ sessions = << >>
    /\ uuids = 0
    /\ conn = [p \in Conns |-> Idle]
    /\ last = Idle
    /\ issued = [s \in SessionIds |-> 0]
    /\ removals = [s \in {Stranger} \cup SessionIds |-> 0]
    /\ gate_origin = NoHeader
    /\ gate_ret = "pending"
    /\ chan = channel(ChannelArg)
    /\ streams = [p \in Conns |-> NoSub]
    /\ sends = 0
    /\ published = << >>
    /\ stdio = Idle
    /\ lines_read = 0
    /\ lines_written = 0
    /\ lines_in = << >>
    /\ guards = {}

NextRpc ==
    \/ RpcPost \/ PostCreate(RpcConn) \/ PostExists(RpcConn) \/ PostExec(RpcConn)
    \/ Delete(RpcConn) \/ DeleteRemove(RpcConn)
    \/ LineRead \/ LineExec
    \/ Written

SpecRpc == InitRpc /\ [][NextRpc]_vars

\* ============================================================ claims
\* What the claims speak of, in terms of an exchange e (a record of conn / last).
Rejected(e) == ~validate_origin(e.origin, allowed_origins)
Answered(e) == e.pc \in {"done", "stream"}
\* A response is produced in this step.
Responds == last = Idle /\ last' # Idle
\* A POST that passes the origin check and parses with method initialize.
AcceptedInit(e) ==
    /\ e.verb = "POST" /\ ~Rejected(e)
    /\ e.body.json /\ e.body.method = "initialize"
KeysOf(map) == DOMAIN map

\* C1: a request whose Origin the gate rejects is answered 403 "Invalid origin"
\* at once and does nothing else: it never waits on the session lock, never
\* reaches the dispatcher or the Operation Executor, never subscribes, and the
\* step that answers it leaves the session map, the UUID source and every other
\* connection as they were.
C1_RejectedOriginOnly403 ==
    [][ /\ \A p \in Conns : conn'[p].pc # "idle" => ~Rejected(conn'[p])
        /\ (Responds /\ Rejected(last')) =>
              /\ last'.pc = "done"
              /\ last'.resp = Text(403, "Invalid origin")
              /\ ~last'.disp /\ ~last'.exec
              /\ UNCHANGED << sessions, uuids, issued, removals, conn >>
      ]_vars

C1_Witness ==
    /\ last.pc = "done" /\ last.verb = "POST" /\ Rejected(last)
    /\ last.body.json /\ last.body.method = "initialize"
    /\ last.resp.status = 403
    /\ KeysOf(sessions) # {}

\* The origin's scheme+host is one of the four loopback forms, with any port.
LoopbackForms ==
    {"http://localhost", "https://localhost", "http://127.0.0.1", "https://127.0.0.1"}
IsLoopbackOrigin(o) ==
    \E f \in LoopbackForms :
        /\ starts_with(o, f)
        /\ Len(o) = Len(f) \/ SubSeq(o, Len(f) + 1, Len(f) + 1) = ":"

\* C2: with an Origin string and no allow-list, validate_origin allows exactly
\* the origins whose scheme+host is http(s)://localhost or http(s)://127.0.0.1
\* (any port), and rejects a host that merely begins with one of them.
C2_LoopbackOnly ==
    (gate_ret # "pending" /\ to_str_ok(gate_origin).some /\ ~allowed_origins.some)
        => (gate_ret = "allow" <=> IsLoopbackOrigin(to_str_ok(gate_origin).s))

C4_NoOriginAllowed ==
    (gate_ret # "pending" /\ ~gate_origin.present) => gate_ret = "allow"

C4_Witness ==
    /\ gate_ret = "allow" /\ gate_origin = NoHeader
    /\ allowed_origins = AllowList(<<"https://myapp.com">>)

\* C5: the response to a POST that passes the origin check and parses with
\* method initialize has status 200, is a success envelope whose id member is
\* the request's id member, and carries an mcp-session-id that create_session
\* had never returned before and that is in the store when the response is
\* produced.
C5_InitializeCreatesSession ==
    [][ (Responds /\ AcceptedInit(last')) =>
          /\ last'.resp.status = 200
          /\ to_string_id(last'.resp.rpc) = last'.body.id
          /\ last'.resp.rpc.result # NoResult /\ last'.resp.rpc.error = NoError
          /\ last'.resp.session \in SessionIds
          /\ issued[last'.resp.session] = 0
          /\ ~session_exists(sessions, last'.resp.session)
          /\ session_exists(sessions', last'.resp.session)
      ]_vars

\* What holds of C5: everything it says, the id for every request id but an
\* explicit null (answered without an id member).
C5_ExceptNullId ==
    [][ (Responds /\ AcceptedInit(last')) =>
          /\ last'.resp.status = 200
          /\ last'.resp.rpc.id = from_str(last'.body).id
          /\ last'.body.id # "null" => to_string_id(last'.resp.rpc) = last'.body.id
          /\ last'.resp.rpc.result # NoResult /\ last'.resp.rpc.error = NoError
          /\ last'.resp.session \in SessionIds
          /\ issued[last'.resp.session] = 0
          /\ ~session_exists(sessions, last'.resp.session)
          /\ session_exists(sessions', last'.resp.session)
      ]_vars

\* C6: create_session never returns an id twice, every id it returned is in the
\* map until it is removed, and an id whose removal returned true is absent
\* for session_exists and get_session ever after.
C6_IdsUniqueRemovalPermanent ==
    \A s \in SessionIds :
        /\ issued[s] <= 1
        /\ (issued[s] = 1 /\ removals[s] = 0) => session_exists(sessions, s)
        /\ removals[s] > 0 =>
              /\ ~session_exists(sessions, s)
              /\ get_session(sessions, s) = NoTx

C6_Witness ==
    /\ issued[1] = 1 /\ issued[2] = 1
    /\ removals[1] = 1 /\ ~session_exists(sessions, 1)
    /\ session_exists(sessions, 2)

\* C7: a step adds a session to the store exactly when it answers a POST that
\* passed the origin check and parsed with method initialize, and then it adds
\* exactly one.
C7_InsertOnlyOnInitialize ==
    [][ LET added == KeysOf(sessions') \ KeysOf(sessions) IN
        /\ Cardinality(added) <= 1
        /\ added # {} <=> (Responds /\ AcceptedInit(last'))
      ]_vars

C7_Witness ==
    /\ last.verb = "POST" /\ ~Rejected(last) /\ last.body.method = "ping"
    /\ last.resp.status = 200
    /\ Cardinality(KeysOf(sessions)) = 1 /\ uuids = 1

\* C8: a DELETE that passes the origin check is answered 400 without the
\* session header, 200 with the session removed when the header names a
\* session of the store, and 404 with the store unchanged otherwise.
C8_DeleteOutcomes ==
    [][ (Responds /\ last'.verb = "DELETE" /\ ~Rejected(last')) =>
          IF last'.sid = NoSid
          THEN last'.resp.status = 400 /\ sessions' = sessions
          ELSE IF last'.sid \in KeysOf(sessions)
               THEN /\ last'.resp.status = 200
                    /\ KeysOf(sessions') = KeysOf(sessions) \ {last'.sid}
                    /\ \A k \in KeysOf(sessions') : sessions'[k] = sessions[k]
               ELSE last'.resp.status = 404 /\ sessions' = sessions
      ]_vars

C8_Witness ==
    /\ last.verb = "DELETE" /\ last.resp.status = 200 /\ last.sid = 1
    /\ KeysOf(sessions) = {2}

\* C9 as stated: a GET or DELETE that names a session S and arrives after a
\* DELETE for S was answered 200 is answered 404.
C9_LaterRequests404 ==
    (Answered(last) /\ last.verb \in {"GET", "DELETE"} /\ last.at_start = "removed")
        => last.resp.status = 404

\* C9, amended: such a GET or DELETE is never answered 200 (no stream is
\* opened, nothing is removed), and is answered 404 whenever it passes the
\* origin check and, for a GET, carries Accept: text/event-stream.
C9_RemovedStaysGone ==
    /\ \A p \in Conns :
          conn[p].at_start = "removed" => conn[p].pc \notin {"subscribe", "stream"}
    /\ (Answered(last) /\ last.verb \in {"GET", "DELETE"} /\ last.at_start = "removed")
          => /\ last.resp.status # 200
             /\ (~Rejected(last) /\ (last.verb = "GET" => last.accept # NoHeader))
                   => last.resp.status = 404

C9_Witness ==
    /\ last.verb = "GET" /\ last.at_start = "removed" /\ last.resp.status = 404

\* C10: of the remove_session calls (DELETE requests) that race for one session
\* of the store, exactly one returns true (200): no id is ever removed twice,
\* and a DELETE that arrived while the session was there and got 404 lost to
\* one that got 200.
C10_OneRemoverWins ==
    /\ \A s \in DOMAIN removals : removals[s] <= 1
    /\ (last.pc = "done" /\ last.verb = "DELETE") =>
          /\ last.resp.status = 200 => last.at_start = "live"
          /\ (last.at_start = "live" /\ ~Rejected(last)) => removals[last.sid] = 1

C10_Witness ==
    /\ last.pc = "done" /\ last.verb = "DELETE"
    /\ last.at_start = "live" /\ last.resp.status = 404
    /\ removals[last.sid] = 1

\* The Accept header of exchange e contains text/event-stream.
AcceptsEventStream(e) ==
    to_str_ok(e.accept).some /\ contains(to_str_ok(e.accept).s, "text/event-stream")

\* C11: a GET that passes the origin check is answered 406 when its Accept
\* header lacks text/event-stream, else 400 when it has no mcp-session-id
\* header, else 404 when get_session finds no session under that id, and all
\* three without subscribing; it goes on to subscribe, and opens its stream,
\* only with such an Accept header and an id get_session found in the store.
C11_GetOpensOrRejects ==
    [][ /\ \A p \in Conns :
              (conn'[p].pc = "subscribe" /\ conn[p].pc # "subscribe") =>
                  /\ conn[p].pc = "lookup" /\ ~Rejected(conn'[p])
                  /\ AcceptsEventStream(conn'[p])
                  /\ session_exists(sessions, conn'[p].sid)
        /\ \A p \in Conns :
              (conn'[p].pc = "stream" /\ conn[p].pc # "stream") =>
                  conn[p].pc = "subscribe" /\ last' = conn'[p]
        /\ (Responds /\ last'.verb = "GET" /\ ~Rejected(last')) =>
              IF ~AcceptsEventStream(last')
              THEN last'.resp = Text(406, "Must accept text/event-stream")
              ELSE IF last'.sid = NoSid
                   THEN last'.resp = Text(400, "Missing Mcp-Session-Id header")
                   ELSE IF last'.pc = "done"
                        THEN /\ last'.resp = Text(404, "Session not found")
                             /\ ~session_exists(sessions, last'.sid)
                             /\ \E p \in Conns : conn[p].pc = "lookup" /\ conn'[p] = Idle
                        ELSE last'.pc = "stream" /\ last'.resp.status = 200
      ]_vars

C11_Witness ==
    /\ last.verb = "GET" /\ last.pc = "stream" /\ last.resp.status = 200
    /\ session_exists(sessions, last.sid)
    /\ \E p \in Conns : conn[p].verb = "GET" /\ conn[p].pc = "lookup" /\ conn[p].sid = Stranger

\* The streams that are open.
OpenStreams == {p \in Conns : streams[p].state = "open"}
\* The positions of the events a stream has written, in the order written.
Positions(st) == [i \in 1 .. Len(st.out) |-> st.out[i].pos]
\* Event e carries the id and the data of the message published at its position.
CarriesMessage(e) ==
    /\ e.pos + 1 \in DOMAIN published
    /\ e.id = published[e.pos + 1].event_id
    /\ e.data = published[e.pos + 1].data

\* C12: a stream that has met no lag has written exactly the messages
\* published since its subscription was taken, so far as it has read: one
\* event per message, in order, with the message's event_id as id and its
\* payload as data; whatever is published and not yet written is there for it
\* to read; and no stream ever writes a message published before its
\* subscription.
C12_DeliversSinceSubscription ==
    \A p \in OpenStreams :
        LET st == streams[p] IN
        /\ \A i \in DOMAIN st.out : st.out[i].pos >= st.from
        /\ st.lags = 0 =>
              /\ Len(st.out) = st.next - st.from
              /\ \A i \in DOMAIN st.out :
                    st.out[i].pos = st.from + i - 1 /\ CarriesMessage(st.out[i])
              /\ st.next <= Len(published)
              /\ (st.next < Len(published) /\ Len(published) - st.next <= Cap(chan))
                    => ENABLED Forward(p)

C12_Witness ==
    \E p \in OpenStreams :
        /\ streams[p].lags = 0 /\ streams[p].from = 1
        /\ Len(published) = 3
        /\ streams[p].out = << [id |-> "e2", data |-> "world", pos |-> 1],
                               [id |-> "e3", data |-> "hello", pos |-> 2] >>

\* C13: the events of one stream are in publish order, none twice, lag or no
\* lag, and each is the message published at its position; two streams of the
\* session write the events they share in the same order.
C13_PublishOrder ==
    /\ \A p \in OpenStreams :
          /\ \A i, j \in DOMAIN streams[p].out :
                i < j => streams[p].out[i].pos < streams[p].out[j].pos
          /\ \A i \in DOMAIN streams[p].out : CarriesMessage(streams[p].out[i])
    /\ \A p, q \in OpenStreams :
          \A i, j \in DOMAIN streams[p].out, k, l \in DOMAIN streams[q].out :
              (/\ streams[p].out[i] = streams[q].out[k]
               /\ streams[p].out[j] = streams[q].out[l])
                  => (i < j <=> k < l)

C13_Witness ==
    \E p, q \in OpenStreams :
        /\ streams[p].lags = 1 /\ streams[q].lags = 0
        /\ Positions(streams[p]) = << 1, 2, 3 >>
        /\ Positions(streams[q]) = << 0, 1, 2 >>

\* A stream whose slot has been overwritten: its next recv reports Lagged.
Lagging(p) ==
    streams[p].state = "open" /\ recv(chan, streams[p].next).kind = "lagged"

\* C14: however far a stream is behind, send is not held back and touches no
\* stream; the step in which a stream meets the lag writes nothing, leaves the
\* stream open at the oldest retained message, and touches neither the channel
\* nor any other stream; and a stream that is open has the next message to
\* read whenever one is published that it has not read.
C14_LagSkipsAndContinues ==
    [][ /\ (sends < MaxPublish /\ session_exists(sessions, SseSession)) => ENABLED Publish
        /\ sends' # sends =>
              /\ streams' = streams
              /\ OpenStreams # {} =>
                    chan'.tail = chan.tail + 1 /\ Len(published') = Len(published) + 1
        /\ \A p \in Conns :
              /\ (streams'[p].state = "ended" /\ streams[p].state = "open") =>
                    chan.closed /\ ~Lagging(p)
              /\ (Lagging(p) /\ streams'[p] # streams[p] /\ streams'[p].state # "none") =>
                    /\ streams'[p].state = "open"
                    /\ streams'[p].out = streams[p].out
                    /\ streams'[p].next = chan.tail - Cap(chan)
                    /\ recv(chan', streams'[p].next).kind = "ok"
                    /\ chan' = chan
                    /\ \A q \in Conns \ {p} : streams'[q] = streams[q]
              /\ (streams[p].state = "open" /\ streams[p].next < chan.tail)
                    => ENABLED Forward(p)
      ]_vars

C14_Witness ==
    \E p, q \in OpenStreams :
        /\ streams[p].lags = 1 /\ streams[p].from = 0
        /\ Len(streams[p].out) = Cap(chan) + 1
        /\ streams[q].lags = 0 /\ streams[q].from = 0
        /\ Len(streams[q].out) = MaxPublish

\* An exchange of one of the two JSON-RPC surfaces: a line of the line stream,
\* or a POST that passed the origin check.
OnSurface(e) == e.verb = "LINE" \/ (e.verb = "POST" /\ ~Rejected(e))
\* The four methods the dispatchers know.
KnownMethods == {"initialize", "tools/list", "tools/call", "ping"}
\* The request was answered in the step it arrived in: its handler never waited.
AnsweredAtOnce == conn' = conn /\ stdio' = stdio
\* The step leaves the session store as it was.
StoreUntouched == UNCHANGED << sessions, uuids, issued, removals >>

\* C15: a POST body or a non-empty line that does not parse as a JSON-RPC
\* request is answered in the step it arrives in, with one response that is
\* error -32700 without an id member (status 400 on HTTP, one line on stdout);
\* no dispatcher, session operation or executor call takes place.
C15_ParseError ==
    [][ (Responds /\ OnSurface(last') /\ ~last'.body.json) =>
          /\ last'.resp.rpc = error(NoId, -32700)
          /\ to_string_id(last'.resp.rpc) = WireAbsent
          /\ last'.verb = "POST" => last'.resp = Json(400, error(NoId, -32700))
          /\ last'.verb = "LINE" =>
                lines_written' = lines_written + 1 /\ lines_read' = lines_read + 1
          /\ ~last'.disp /\ ~last'.exec
          /\ AnsweredAtOnce /\ StoreUntouched
      ]_vars

C15_Witness ==
    /\ transport = "stdio" /\ last.verb = "LINE" /\ last.body = Garbage
    /\ last.resp.rpc.error = -32700
    /\ lines_read = 3 /\ lines_written = 2

\* C16: a parsed request whose method is none of initialize, tools/list,
\* tools/call, ping is answered with error -32601, no result and the request's
\* id member, without a session change or an executor call.
C16_MethodNotFound ==
    [][ (Responds /\ OnSurface(last') /\ last'.body.json
           /\ last'.body.method \notin KnownMethods) =>
          /\ last'.resp.rpc.error = -32601 /\ last'.resp.rpc.result = NoResult
          /\ to_string_id(last'.resp.rpc) = last'.body.id
          /\ ~last'.exec /\ StoreUntouched
      ]_vars

\* What holds of C16: all of it, the id member for every request id but an
\* explicit null.
C16_ExceptNullId ==
    [][ (Responds /\ OnSurface(last') /\ last'.body.json
           /\ last'.body.method \notin KnownMethods) =>
          /\ last'.resp.rpc = error(from_str(last'.body).id, -32601)
          /\ last'.body.id # "null" => to_string_id(last'.resp.rpc) = last'.body.id
          /\ ~last'.exec /\ StoreUntouched
      ]_vars

\* C17: a tools/call whose params.name is none of the five registered tools is
\* answered with a success envelope whose result has isError = true, whatever
\* its arguments, and the Operation Executor is not called.
C17_UnknownTool ==
    [][ (Responds /\ OnSurface(last') /\ last'.body.json
           /\ last'.body.method = "tools/call"
           /\ last'.body.tool \notin RegisteredTools) =>
          /\ last'.resp.rpc.result = "content+isError"
          /\ last'.resp.rpc.error = NoError
          /\ last'.verb = "POST" => last'.resp.status = 200
          /\ ~last'.exec
      ]_vars

C17_Witness ==
    /\ transport = "http" /\ last.verb = "POST"
    /\ last.body = RpcCall("7", "docker_rm", RunArgs)
    /\ last.resp.rpc = success("7", "content+isError")

\* The arguments satisfy the tool's inputSchema: every required member is
\* there, and every member the schema describes has the type it gives.
SchemaOk(tool, arguments) ==
    /\ \A f \in SchemaRequired(tool) : \E a \in arguments : a[1] = f
    /\ \A a \in arguments :
          (\E q \in SchemaProperties(tool) : q[1] = a[1]) => a \in SchemaProperties(tool)

\* C18: a tools/call that names a registered tool with arguments that do not
\* satisfy its schema is answered with error -32602 and no result, on both
\* surfaces.
C18_InvalidParams ==
    [][ (Responds /\ OnSurface(last') /\ last'.body.json
           /\ last'.body.method = "tools/call"
           /\ last'.body.tool \in RegisteredTools
           /\ ~SchemaOk(last'.body.tool, last'.body.args)) =>
          /\ last'.resp.rpc.error = -32602
          /\ last'.resp.rpc.result = NoResult
      ]_vars

\* What holds of C18: -32602 on the HTTP surface; on the line stream the same
\* calls get a success envelope with isError = true.  Neither calls the executor.
C18_HttpOnly ==
    [][ (Responds /\ OnSurface(last') /\ last'.body.json
           /\ last'.body.method = "tools/call"
           /\ last'.body.tool \in RegisteredTools
           /\ ~SchemaOk(last'.body.tool, last'.body.args)) =>
          /\ last'.verb = "POST" => last'.resp.rpc = error(from_str(last'.body).id, -32602)
          /\ last'.verb = "LINE" =>
                last'.resp.rpc = success(from_str(last'.body).id, "content+isError")
          /\ ~last'.exec
      ]_vars

\* C19: when the Operation Executor has been called for a tools/call, the
\* answer is a success envelope with the request's id member: with
\* isError = true and a text when the executor failed, without isError when
\* it succeeded.
C19_ExecutorOutcome ==
    [][ (Responds /\ OnSurface(last') /\ last'.exec) =>
          /\ last'.body.method = "tools/call" /\ last'.outcome # "none"
          /\ last'.resp.rpc.error = NoError
          /\ to_string_id(last'.resp.rpc) = last'.body.id
          /\ last'.outcome = "err" => last'.resp.rpc.result = "content+isError"
          /\ last'.outcome = "ok" => last'.resp.rpc.result = "content"
      ]_vars

\* What holds of C19: all of it, the id member for every request id but an
\* explicit null.
C19_ExceptNullId ==
    [][ (Responds /\ OnSurface(last') /\ last'.exec) =>
          /\ last'.body.method = "tools/call" /\ last'.outcome # "none"
          /\ last'.resp.rpc.error = NoError
          /\ last'.resp.rpc.id = from_str(last'.body).id
          /\ last'.body.id # "null" => to_string_id(last'.resp.rpc) = last'.body.id
          /\ last'.outcome = "err" => last'.resp.rpc.result = "content+isError"
          /\ last'.outcome = "ok" => last'.resp.rpc.result = "content"
      ]_vars

\* C20: the id member of the response to a parsed request is the id member of
\* the request, for every method on both surfaces: a number, a string, null,
\* or no member at all.
C20_IdEcho ==
    (Answered(last) /\ OnSurface(last) /\ last.body.json) =>
        to_string_id(last.resp.rpc) = last.body.id

\* What holds of C20: the echo for a number, a string and a missing id; an
\* explicit null id is answered without an id member.
C20_ExceptNullId ==
    (Answered(last) /\ OnSurface(last) /\ last.body.json) =>
        /\ last.resp.rpc.id = from_str(last.body).id
        /\ to_string_id(last.resp.rpc) = IF last.body.id = "null" THEN WireAbsent
                                        ELSE last.body.id

\* Exactly one of result and error is Some in the response r.
OneOfResultError(r) == (r.result # NoResult) # (r.error # NoError)

\* C21: every JSON-RPC response either surface produces (parse errors
\* included) has exactly one of result and error set; its serialized form has
\* exactly one of the keys result and error; and parsing that form back gives
\* a response with the same one of the two set, and the same value.
C21_ResultXorError ==
    (Answered(last) /\ OnSurface(last)) =>
        LET r == last.resp.rpc
            wire == to_string(r)
            back == from_str_response(wire)
        IN  /\ OneOfResultError(r)
            /\ Cardinality(MembersOf(wire) \cap {"result", "error"}) = 1
            /\ "result" \in MembersOf(wire) <=> r.result # NoResult
            /\ OneOfResultError(back)
            /\ back.result = r.result /\ back.error = r.error

C21_Witness ==
    /\ transport = "http" /\ last.verb = "POST"
    /\ last.body = RpcCall("7", "docker_run", ImageOnly)
    /\ to_string(last.resp.rpc) = [id |-> "7", result |-> WireAbsent, error |-> -32602]

\* The lines read so far whose kind is one of kinds.
LinesOf(seq, kinds) == Cardinality({i \in DOMAIN seq : seq[i] \in kinds})
\* A blank line is empty or holds only whitespace.
BlankKinds == {"empty", "spaces"}
NonBlankLines(seq) == LinesOf(seq, {"text"})
NonEmptyLines(seq) == LinesOf(seq, {"text", "spaces"})
\* The item read in this step.
ReadNow == lines_in'[Len(lines_in')]

\* C22: on the line stream a line is read only when every non-blank line read
\* before has its response written; a response line is written one at a time,
\* for a non-blank line, as the k-th output line for the k-th non-blank line;
\* and while the Operation Executor runs for a line, that line is the only
\* one without a response.
C22_LineSequential ==
    [][ /\ lines_read' # lines_read =>
              stdio.pc = "idle" /\ last = Idle /\ lines_written = NonBlankLines(lines_in)
        /\ lines_written' # lines_written =>
              /\ lines_written' = lines_written + 1
              /\ last'.verb = "LINE" /\ last = Idle
              /\ lines_written' = NonBlankLines(lines_in')
        /\ stdio'.pc = "exec" => lines_written' = NonBlankLines(lines_in') - 1
      ]_vars

\* What holds of C22: all of it with "non-empty" in place of "non-blank" (a
\* line of whitespace is answered like any line that fails to parse).
C22_NonEmptyLines ==
    [][ /\ lines_read' # lines_read =>
              stdio.pc = "idle" /\ last = Idle /\ lines_written = NonEmptyLines(lines_in)
        /\ lines_written' # lines_written =>
              /\ lines_written' = lines_written + 1
              /\ last'.verb = "LINE" /\ last = Idle
              /\ lines_written' = NonEmptyLines(lines_in')
        /\ stdio'.pc = "exec" => lines_written' = NonEmptyLines(lines_in') - 1
      ]_vars

\* C23: reading a blank line (empty, or only whitespace) writes no response
\* line and leaves the loop at its head, ready for the next line.
C23_BlankIgnored ==
    [][ (lines_read' # lines_read /\ ReadNow \in BlankKinds) =>
          /\ lines_written' = lines_written
          /\ last' = Idle /\ stdio'.pc = "idle"
      ]_vars

\* What holds of C23: an empty line is ignored; a line of whitespace only is
\* answered with error -32700.
C23_EmptyIgnored ==
    [][ /\ (lines_read' # lines_read /\ ReadNow = "empty") =>
              /\ lines_written' = lines_written
              /\ last' = Idle /\ stdio'.pc = "idle"
        /\ (lines_read' # lines_read /\ ReadNow = "spaces") =>
              /\ lines_written' = lines_written + 1
              /\ last'.resp.rpc = error(NoId, -32700) /\ stdio'.pc = "idle"
      ]_vars

\* C24: while the process serves the line stream the session store stays as
\* AppState::new left it (nothing created, removed or drawn) and the loop
\* never waits on the sessions lock; a line with method initialize gets the
\* JSON-RPC response the HTTP surface gives the same request, with no session
\* id attached, where the HTTP response carries one.
C24_LineStreamNoSessions ==
    /\ transport = "stdio" =>
          /\ sessions = << >> /\ uuids = 0
          /\ \A s \in SessionIds : issued[s] = 0
          /\ \A s \in DOMAIN removals : removals[s] = 0
          /\ stdio.pc \notin {"create", "exists", "lookup", "remove"}
    /\ (Answered(last) /\ OnSurface(last) /\ last.body.json
           /\ last.body.method = "initialize") =>
          /\ last.resp.rpc = handle_initialize(from_str(last.body).id)
          /\ last.verb = "LINE" =>
                /\ last.resp.session = NoSid
                /\ last.resp = [NoResp EXCEPT !.rpc = last.resp.rpc]
          /\ last.verb = "POST" =>
                /\ last.resp.session \in SessionIds
                /\ last.resp = [Json(200, last.resp.rpc) EXCEPT
                                    !.session = last.resp.session]

C24_Witness ==
    /\ transport = "stdio" /\ last.verb = "LINE"
    /\ last.body = RpcBody("\"abc\"", "initialize", "")
    /\ last.resp.rpc = success("\"abc\"", "initialize")
    /\ lines_written = 3 /\ sessions = << >>

\* C25: a POST that passes the origin check and parses with a method other
\* than initialize is answered 200 with the JSON-RPC response that the same
\* body gets without a session header (given the same executor outcome),
\* whether its header is absent or names an unknown, a removed or a live
\* session; the header never leads to a rejection.
C25_SessionHeaderIgnored ==
    (Answered(last) /\ last.verb = "POST" /\ ~Rejected(last) /\ last.body.json
       /\ last.body.method # "initialize") =>
        LET bare == handle_post(Request("POST", last.origin, NoSid, NoHeader, last.body)) IN
        /\ last.resp.status = 200 /\ last.resp.ctype = "application/json"
        /\ last.resp.session = NoSid
        /\ last.disp /\ last.exec = (bare.pc = "exec")
        /\ bare.pc = "done" => last.resp = bare.resp
        /\ bare.pc = "exec" =>
              last.resp = Json(200, tool_result(from_str(last.body).id, last.outcome = "ok"))

C25_Witness ==
    /\ last.verb = "POST" /\ last.at_start = "removed" /\ last.sid \in SessionIds
    /\ last.body = RpcCall("7", "docker_list", NoArgs)
    /\ last.resp = Json(200, success("7", "content"))
    /\ \E s \in SessionIds : session_exists(sessions, s)

\* The catalog: five entries, named as the five registered tools, one each,
\* every one with a description and an inputSchema object.
CatalogIsTheFiveTools ==
    /\ Len(tools) = 5
    /\ {tools[i].name : i \in DOMAIN tools} = RegisteredTools
    /\ \A i \in DOMAIN tools :
          /\ tools[i].description # ""
          /\ tools[i].inputSchema.type = "object"
          /\ tools[i].inputSchema.required
                \subseteq {f[1] : f \in tools[i].inputSchema.properties}

\* C26: every tools/list request either surface answers, with or without
\* params, whatever the session header and the store hold and whatever was
\* asked before, gets a success envelope whose result is the one catalog of
\* the five tools; the executor is not called for it.
C26_ToolsListCatalog ==
    (Answered(last) /\ OnSurface(last) /\ last.body.json
       /\ last.body.method = "tools/list") =>
        /\ last.resp.rpc.result = "tools" /\ last.resp.rpc.error = NoError
        /\ last.resp.rpc.id = from_str(last.body).id
        /\ ~last.exec /\ last.outcome = "none"
        /\ CatalogIsTheFiveTools

C26_Witness ==
    /\ transport = "http" /\ last.verb = "POST" /\ last.body = ListWithParams
    /\ last.at_start = "live" /\ last.resp.rpc = success("7", "tools")

\* C27: a request with method initialize, whatever its id, its version string
\* and its params, is answered with a success envelope (status 200 on HTTP)
\* whose result is the fixed descriptor: protocolVersion 2024-11-05, a
\* capabilities.tools member, serverInfo.name docker-agent; never an error.
C27_InitializeSucceeds ==
    (Answered(last) /\ OnSurface(last) /\ last.body.json
       /\ last.body.method = "initialize") =>
        /\ last.resp.rpc.result = "initialize" /\ last.resp.rpc.error = NoError
        /\ last.resp.rpc.id = from_str(last.body).id
        /\ last.verb = "POST" => last.resp.status = 200
        /\ initialize_result.protocolVersion = "2024-11-05"
        /\ "tools" \in DOMAIN initialize_result.capabilities
        /\ initialize_result.serverInfo.name = "docker-agent"

C27_Witness ==
    /\ transport = "stdio" /\ last.verb = "LINE"
    /\ last.body = [RpcBody("null", "initialize", "") EXCEPT !.jsonrpc = "1.0",
                                                              !.params = "array"]
    /\ last.resp.rpc = success(NoId, "initialize")

HttpDispatch(body, ok) ==
    LET c == handle_json_rpc_request(Request("POST", NoHeader, NoSid, NoHeader, body),
                                     from_str(body))
    IN  IF c.pc = "exec" THEN tool_result(from_str(body).id, ok) ELSE c.resp.rpc
LineDispatch(body, ok) ==
    LET c == handle_request(Request("LINE", NoHeader, NoSid, NoHeader, body), from_str(body))
    IN  IF c.pc = "exec" THEN tool_result(from_str(body).id, ok) ELSE c.resp.rpc

\* C29: the JSON-RPC response a parsed request gets on the surface that serves
\* it is the response of the HTTP dispatcher and the response of the
\* line-stream dispatcher to that request, under the same executor outcome:
\* the two dispatchers answer every request alike.
C29_SameDispatch ==
    (Answered(last) /\ OnSurface(last) /\ last.body.json) =>
        /\ last.resp.rpc = HttpDispatch(last.body, last.outcome = "ok")
        /\ last.resp.rpc = LineDispatch(last.body, last.outcome = "ok")

\* What holds of C29: the two dispatchers agree on every request but a
\* tools/call of docker_run, docker_logs, docker_exec or docker_stop whose
\* arguments from_value refuses.
C29_ExceptInvalidArguments ==
    (Answered(last) /\ OnSurface(last) /\ last.body.json) =>
        /\ last.verb = "POST" => last.resp.rpc = HttpDispatch(last.body, last.outcome = "ok")
        /\ last.verb = "LINE" => last.resp.rpc = LineDispatch(last.body, last.outcome = "ok")
        /\ (last.body.method = "tools/call" /\ last.body.tool \in RegisteredTools
               /\ ~from_value(last.body.tool, last.body.args))
           \/ HttpDispatch(last.body, last.outcome = "ok")
                 = LineDispatch(last.body, last.outcome = "ok")

\* C30: a stream that is open stops being open only in the step in which its
\* client disconnects (the stream is dropped); no other step ends it, whether
\* the stream lags or its session is removed.
C30_EndsOnlyOnDisconnect ==
    [][ \A p \in Conns :
            (streams[p].state = "open" /\ streams'[p].state # "open") =>
                streams'[p] = NoSub /\ chan'.rx_cnt = chan.rx_cnt - 1
      ]_vars

\* What holds of C30: lag never ends a stream, and a stream is open for as
\* long as its session is in the store; once the session is removed the
\* stream still yields what the channel retains, and then it is over, with
\* the client connected.
C30_EndsOnSessionRemoval ==
    [][ \A p \in Conns :
            /\ (streams[p].state = "open" /\ streams'[p].state = "ended") =>
                  /\ ~session_exists(sessions, SseSession) /\ chan.closed
                  /\ ~Lagging(p) /\ streams[p].next = chan.tail
                  /\ streams'[p].out = streams[p].out
            /\ (streams[p].state = "open" /\ streams'[p].state = "none") =>
                  streams'[p] = NoSub /\ chan'.rx_cnt = chan.rx_cnt - 1
            /\ (streams[p].state = "open" /\ chan.closed) => ENABLED Forward(p)
      ]_vars

\* The connections whose SSE stream has not been dropped.
ConnectedStreams == {p \in Conns : streams[p].state # "none"}

\* C31: the channel counts exactly as many live receivers as there are SSE
\* streams not yet dropped; the step that drops a stream gives its receiver
\* back and touches neither the ring nor any other stream; and while the
\* session is in the store a publisher can always send, a send with no
\* receiver left filling no slot and adding to no stream's lag.
C31_SubscriptionReleased ==
    [][ /\ chan.rx_cnt = Cardinality(ConnectedStreams)
        /\ chan'.rx_cnt = Cardinality({p \in Conns : streams'[p].state # "none"})
        /\ \A p \in Conns :
              (streams[p].state # "none" /\ streams'[p].state = "none") =>
                  /\ streams'[p] = NoSub
                  /\ chan'.rx_cnt = chan.rx_cnt - 1
                  /\ chan'.buffer = chan.buffer /\ chan'.tail = chan.tail
                  /\ \A q \in Conns \ {p} : streams'[q] = streams[q]
        /\ (sends < MaxPublish /\ session_exists(sessions, SseSession)) => ENABLED Publish
        /\ (sends' # sends /\ ConnectedStreams = {}) =>
              chan' = chan /\ streams' = streams /\ published' = published
      ]_vars

C31_Witness ==
    /\ chan.rx_cnt = 0 /\ ConnectedStreams = {}
    /\ chan.tail = 2 /\ sends = 3 /\ Len(published) = 2

\* The step connection q is waiting to take can be taken.
CanProceed(q) ==
    /\ conn[q].pc = "create" => ENABLED PostCreate(q)
    /\ conn[q].pc = "exists" => ENABLED PostExists(q)
    /\ conn[q].pc = "lookup" => ENABLED GetLookup(q)
    /\ conn[q].pc = "subscribe" => ENABLED GetSubscribe(q)
    /\ conn[q].pc = "remove" => ENABLED DeleteRemove(q)
    /\ conn[q].pc = "exec" => ENABLED PostExec(q)
    /\ conn[q].pc = "idle" =>
          /\ ENABLED Get(q) /\ ENABLED Delete(q)
          /\ uuids < MaxUuids =>
                ENABLED PostOf(q, {NoHeader},
                               {[body |-> RpcBody("7", "initialize", ""), sid |-> NoSid]})

\* C32: a handler waiting for the Operation Executor holds no guard on the
\* session map, and every other connection can take its next step (an
\* initialize, a GET, a DELETE, another tools/call, each through its lock
\* operation to its answer) while that wait lasts.
C32_NoLockDuringExecutor ==
    \A p \in Conns :
        conn[p].pc = "exec" =>
            /\ p \notin guards
            /\ last = Idle => \A q \in Conns \ {p} : CanProceed(q)

C32_Witness ==
    /\ conn[1].pc = "exec" /\ conn[1].sid = Stranger
    /\ last.verb = "DELETE" /\ last.resp.status = 200
    /\ sessions = << >> /\ uuids = 1

\* The exchanges in the state: in flight on a connection or on the line
\* stream, or just answered.
Exchanges == {conn[p] : p \in Conns} \cup {stdio, last}
\* The request of e is a tools/call the dispatcher hands to the executor.
CallsExecutor(e) ==
    /\ e.body.json /\ e.body.method = "tools/call"
    /\ e.body.tool \in RegisteredTools
    /\ e.body.tool # "docker_list" => from_value(e.body.tool, e.body.args)

\* C33: no request ever has the Operation Executor invoked more than once; it
\* is invoked only for a tools/call that names a registered tool with
\* arguments that deserialize; and an answered request has had exactly one
\* invocation in that case, whatever the executor returned, and none otherwise.
C33_AtMostOneExecutorCall ==
    /\ \A e \in Exchanges :
          /\ e.calls <= 1 /\ (e.exec <=> e.calls = 1)
          /\ e.calls > 0 => CallsExecutor(e)
          /\ e.pc = "exec" => e.calls = 1 /\ e.outcome = "none"
    /\ (Answered(last) /\ OnSurface(last)) =>
          /\ last.calls = (IF CallsExecutor(last) THEN 1 ELSE 0)
          /\ last.outcome # "none" <=> last.calls = 1

C33_Witness ==
    /\ transport = "stdio" /\ last.verb = "LINE"
    /\ last.body = RpcCall("7", "docker_exec", ExecArgs)
    /\ last.outcome = "err" /\ last.calls = 1
    /\ last.resp.rpc = success("7", "content+isError")

\* C34: the line loop returns Ok exactly at end of input; a line, whether it
\* parses or not and whatever its method, tool and executor outcome, leaves
\* the loop running: it is answered, the loop is back at its head with every
\* non-empty line read so far answered, and the next line can be read.
C34_LoopEndsAtEof ==
    [][ /\ stdio'.pc = "ok" =>
              stdio.pc = "ok" \/ (lines_read' # lines_read /\ ReadNow = "eof")
        /\ (lines_read' # lines_read /\ ReadNow = "eof") => stdio'.pc = "ok"
        /\ (lines_read' # lines_read /\ ReadNow \in {"text", "spaces", "empty"}) =>
              stdio'.pc \in {"idle", "exec"}
        /\ stdio.pc = "exec" => stdio'.pc \in {"idle", "exec"}
        /\ stdio'.pc = "idle" => lines_written' = NonEmptyLines(lines_in')
        /\ (transport = "stdio" /\ stdio.pc = "idle" /\ last = Idle
               /\ lines_read < MaxLines) => ENABLED LineRead
      ]_vars

C34_Witness ==
    /\ stdio.pc = "ok" /\ lines_in = << "spaces", "text", "eof" >>
    /\ lines_written = 2 /\ lines_read = 3

\* C35: a session leaves the store only in the step in which remove_session
\* finds it for a DELETE naming its id, answered 200; every other step (an
\* initialize with or without a session header, a POST naming a live, stale
\* or foreign id, a GET, the start or the disconnect of an SSE stream, a
\* response written out) keeps every session of the store, unchanged.
C35_SessionStaysUntilDelete ==
    [][ \A s \in KeysOf(sessions) :
            IF s \in KeysOf(sessions')
            THEN sessions'[s] = sessions[s]
            ELSE /\ Responds /\ last'.verb = "DELETE" /\ last'.sid = s
                 /\ ~Rejected(last') /\ last'.resp = Text(200, "Session terminated")
                 /\ KeysOf(sessions') = KeysOf(sessions) \ {s}
      ]_vars

C35_Witness ==
    /\ last.verb = "POST" /\ last.body.method = "initialize" /\ last.sid = 1
    /\ last.resp.session = 2 /\ KeysOf(sessions) = {1, 2}
    /\ \E p \in Conns : conn[p].pc = "idle" /\ removals[1] = 0

\* C36: a POST that passes the origin check is answered with status 400
\* exactly when its body does not parse as a JSON-RPC request and with status
\* 200 for every parsed request, whatever the JSON-RPC outcome (success, an
\* error code, a tool result with isError); in both cases the body is one
\* JSON-RPC response sent as application/json.
C36_PostStatus ==
    [][ (Responds /\ last'.verb = "POST" /\ ~Rejected(last')) =>
          /\ last'.resp.status = 400 <=> ~last'.body.json
          /\ last'.body.json => last'.resp.status = 200
          /\ last'.resp.status \in {200, 400}
          /\ last'.resp = [Json(last'.resp.status, last'.resp.rpc)
                              EXCEPT !.session = last'.resp.session]
          /\ OneOfResultError(last'.resp.rpc)
          /\ from_str_response(to_string(last'.resp.rpc)) = last'.resp.rpc
      ]_vars

C36_Witness ==
    /\ transport = "http" /\ last.verb = "POST" /\ ~Rejected(last)
    /\ last.body = RpcCall("7", "docker_run", ImageOnly)
    /\ last.resp = Json(200, error("7", -32602))

\* The response carries a body of its own: a text or a JSON-RPC response (an
\* SSE stream's body is the stream).
HasBody(resp) == resp.text # "" \/ resp.rpc # NoRpc

\* C37: every HTTP response that carries a body is JSON and has Content-Type
\* application/json, for POST, GET and DELETE and for every outcome, the 403,
\* 400, 404 and 406 rejections and the DELETE 200 confirmation included.
C37_EveryBodyIsJson ==
    [][ (Responds /\ last'.verb \in {"POST", "GET", "DELETE"} /\ HasBody(last'.resp)) =>
          /\ last'.resp.ctype = "application/json"
          /\ last'.resp.text = ""
      ]_vars

\* What holds of C37: the answers of handle_post past the origin check are
\* JSON sent as application/json; every rejection by status and both answers
\* of DELETE are a fixed text sent as text/plain.
C37_JsonFromPostOnly ==
    [][ (Responds /\ last'.verb \in {"POST", "GET", "DELETE"} /\ HasBody(last'.resp)) =>
          IF last'.verb = "POST" /\ ~Rejected(last')
          THEN /\ last'.resp.ctype = "application/json"
               /\ last'.resp.text = "" /\ last'.resp.rpc # NoRpc
          ELSE /\ last'.resp.ctype = "text/plain"
               /\ last'.resp.text # "" /\ last'.resp.rpc = NoRpc
               /\ last'.resp.status \in {403, 400, 404, 406, 200}
               /\ last'.resp.status = 200 => last'.verb = "DELETE"
      ]_vars

\* The text is JSON; the text is a JSON object with a jsonrpc and a method
\* member, a request object; the text is an array of a request's members.
WellFormedJson(body) == body.form # "malformed"
RequestObject(body) == body.form = "object" /\ {"jsonrpc", "method"} \subseteq body.has
PositionalArray(body) == body.form = "array" /\ {"jsonrpc", "method"} \subseteq body.has

\* C38: no response on either surface has error code -32600; a body or line
\* that is well-formed JSON but not a request object (an object without method
\* or without jsonrpc, an array, a scalar) is answered with error -32700 and no
\* id member, as malformed JSON is, even when it carries an id.
C38_InvalidRequestIsParseError ==
    [][ (Responds /\ OnSurface(last')) =>
          /\ last'.resp.rpc.error # -32600
          /\ (WellFormedJson(last'.body) /\ ~RequestObject(last'.body)) =>
                /\ last'.resp.rpc = error(NoId, -32700)
                /\ to_string_id(last'.resp.rpc) = WireAbsent
      ]_vars

\* What holds of C38: no -32600 ever, and -32700 without an id for every JSON
\* text that is not a request object except an array that gives jsonrpc, id,
\* method by position, which is dispatched as the request it spells.
C38_ExceptPositionalArray ==
    [][ (Responds /\ OnSurface(last')) =>
          /\ last'.resp.rpc.error # -32600
          /\ (WellFormedJson(last'.body) /\ ~RequestObject(last'.body)
                 /\ ~PositionalArray(last'.body)) =>
                /\ last'.resp.rpc = error(NoId, -32700)
                /\ to_string_id(last'.resp.rpc) = WireAbsent
                /\ ~last'.disp
          /\ PositionalArray(last'.body) =>
                /\ last'.disp
                /\ last'.resp.rpc = success(parse_id(last'.body.id), "{}")
      ]_vars

\* The params of the request give no tool name: they are no object, or an
\* object whose name member is missing or is no string.
NamesNoTool(body) == body.params # "object" \/ body.name # "string"

\* C39: a tools/call whose params have no name member, a name that is no
\* string, or are no object at all (null, absent, an array) is a call of the
\* unknown tool "": on both surfaces the answer is a success envelope whose
\* result has isError = true, never error -32602, and the Operation Executor is
\* not called; and a call without an arguments member is handled as the same
\* call with arguments {}.
C39_NamelessCall ==
    [][ (Responds /\ OnSurface(last') /\ last'.body.json
           /\ last'.body.method = "tools/call") =>
          /\ NamesNoTool(last'.body) =>
                /\ from_str(last'.body).tool = ""
                /\ last'.resp.rpc = success(parse_id(last'.body.id), "content+isError")
                /\ last'.resp.rpc.error # -32602
                /\ last'.verb = "POST" => last'.resp.status = 200
                /\ ~last'.exec /\ last'.calls = 0 /\ last'.outcome = "none"
          /\ last'.body.arguments = "absent" =>
                LET same == [last'.body EXCEPT !.arguments = "object", !.members = {},
                                               !.args = {}]
                    ok == last'.outcome = "ok"
                IN  /\ from_str(last'.body).args = {}
                    /\ last'.verb = "POST" => last'.resp.rpc = HttpDispatch(same, ok)
                    /\ last'.verb = "LINE" => last'.resp.rpc = LineDispatch(same, ok)
                    /\ last'.exec <=> from_str(last'.body).tool = "docker_list"
      ]_vars

C39_Witness ==
    /\ transport = "http" /\ last.verb = "POST"
    /\ last.body = CallText("7", "tools/call", "array", "absent", "docker_list", "absent", {})
    /\ last.resp = Json(200, success("7", "content+isError"))
    /\ ~last.exec

\* C40: whatever the interleaving of a GET and a DELETE on one session, a GET
\* that opens a 200 SSE stream took its subscription (tx.subscribe()) while
\* the session was in the store; otherwise the GET is answered 404.
C40_SubscribedWhilePresent ==
    [][ \A p \in Conns :
            (conn[p].pc = "subscribe" /\ conn'[p].pc = "stream") =>
                /\ conn'[p].resp.status = 200
                /\ session_exists(sessions, conn[p].sid)
      ]_vars

\* What holds of C40: a GET that opens a stream found its session in the store
\* when get_session read it, and subscribes on the Sender it cloned then; a GET
\* whose session was gone at that read is answered 404.
C40_PresentAtLookup ==
    [][ \A p \in Conns :
            /\ (conn[p].pc = "lookup" /\ conn'[p].pc = "subscribe") =>
                  /\ session_exists(sessions, conn[p].sid)
                  /\ conn'[p].local = get_session(sessions, conn[p].sid)
            /\ (conn[p].pc = "lookup" /\ conn'[p].pc # "subscribe" /\ conn'[p] # conn[p]) =>
                  /\ ~session_exists(sessions, conn[p].sid)
                  /\ last'.resp = Text(404, "Session not found")
            /\ (conn[p].pc = "subscribe" /\ conn'[p].pc = "stream") =>
                  /\ conn'[p].local = conn[p].local /\ conn[p].local # NoTx
                  /\ issued[conn[p].sid] > 0
      ]_vars

====
